---- MODULE Spec2Model ----
(***************************************************************************)
(* Model of the file-system router of patrickaigbogun/fable:               *)
(*   - the path matcher (normalizePathname, splitPathname, matchRoute),    *)
(*   - the FileRouter component in its two versions, the layout-aware one  *)
(*     (location state, popstate subscription, navigate, route match, load *)
(*     effect with its per-attempt cancelled flag, render) and the one     *)
(*     built on React.lazy, with the renders React makes of them,          *)
(*   - the route generator and its watch mode (generateFsRoutes,           *)
(*     ensureWatched, schedule), in both versions of generate.ts.          *)
(* A JavaScript string is a sequence of one-character strings, so that     *)
(* slicing, splitting and percent-decoding are computed, not assumed.      *)
(***************************************************************************)
EXTENDS Integers, Sequences, FiniteSets, TLC

VARIABLES
    segments,     \* matcher harness: the segment list given to matchRoute
    pathname,     \* matcher harness: the pathname given to matchRoute
    result,       \* matcher harness: matchRoute(segments, pathname)
    resultSlash,  \* matcher harness: matchRoute(segments, pathname + "/")
    resultTrunc,  \* matcher harness: matchRoute(segments cut after the first
                  \* catch-all, pathname)
    routes,       \* props.routes: the route table given to FileRouter
    history,      \* the browser's session history (URLs of this document)
    hidx,         \* the current history entry; window.location is history[hidx]
    kind,         \* which FileRouter is mounted: "layouts" (the layout-aware
                  \* one) or "lazy" (the one built on React.lazy)
    status,       \* "unmounted" | "mounted" | "crashed" (a render threw) |
                  \* "torndown" (the root was unmounted)
    rendered,     \* which branch the last committed render took; after a
                  \* crash, what threw
    subscribed,   \* whether the popstate effect has run and not been cleaned up
    listeners,    \* how many popstate listeners of this router the window holds
    loc,          \* the loc state: {pathname, search}
    queuedLoc,    \* the value of the last setLoc call React has not rendered
                  \* yet (NoLoc when no update is queued)
    match,        \* the memoised match of the committed render
    loaded,       \* the loaded state: null or {Page, Layout}
    loadError,    \* the loadError state: null or the caught error
    queuedLoaded, \* the value of the last setLoaded call React has not
                  \* rendered yet
    queuedLoadError, \* the value of the last setLoadError call React has not
                  \* rendered yet
    effectFile,   \* match.route.file the load effect last ran for (the lazy
                  \* page was last made for)
    loads,        \* the load attempts started so far, in order
    pageMod,      \* what importPage() resolved to in the current attempt
    docTitle,     \* document.title
    descTags,     \* contents of the <meta name="description"> tags, in order
    click,        \* the call handled in this step: a click on a Link, with
                  \* what its handler did, or a call of navigate
    applied,      \* metadata harness: the arguments of its applyMetadata calls
    pagesDir,     \* generator: the files under web/pages, as relative paths
    table,        \* generator: the route table generateFsRoutes last wrote to
                  \* routes.ts
    manifest,     \* generator: the route table it last wrote to manifest.json
    dirs,         \* watch mode: the directories that exist under ./web
    watchers,     \* watch mode: the keys of the watchers map
    live,         \* watch mode: the keys whose watcher is attached to the
                  \* directory that exists at its path now
    changes,      \* watch mode: how many changes to the tree and spontaneous
                  \* watcher events there have been
    frames,       \* watch mode: the suspended call of ensureWatched() or
                  \* walk() of the startup body and of the timer callback
    scheduled,    \* watch mode: the pending debounce timer and the rescanDirs
                  \* its callback closed over
    running,      \* watch mode: the running flag
    needsRerun,   \* watch mode: the needsRerun flag
    regen,        \* watch mode: where the timer callback that set running
                  \* stands, and its rescanDirs
    startup,      \* watch mode: where the body of watchPagesAndRegenerate
                  \* stands
    rescanOwed,   \* watch mode (history): a structural event was delivered
                  \* and no call of ensureWatched has started since
    regenOwed,    \* watch mode (history): a watcher event was delivered and
                  \* no timer callback has started a generation since
    variant       \* watch mode: which version of generate.ts runs, the one
                  \* with layouts or the one with routes only

matcherVars == <<segments, pathname, result, resultSlash, resultTrunc>>
browserVars == <<history, hidx>>
documentVars == <<docTitle, descTags>>
routerVars == <<routes, kind, status, rendered, subscribed, listeners, loc, queuedLoc, match,
                loaded, loadError, queuedLoaded, queuedLoadError, effectFile, loads, pageMod,
                click>>
generatorVars == <<pagesDir, table, manifest>>
schedulerVars == <<scheduled, running, needsRerun, regen>>
watchVars == <<dirs, changes, watchers, live, frames, schedulerVars, startup, rescanOwed, regenOwed, variant>>
\* What no step of the running router touches.
buildVars == <<matcherVars, generatorVars, watchVars, applied>>
vars == <<matcherVars, browserVars, documentVars, routerVars, generatorVars, watchVars,
          applied>>

\* ------------------------------------------------------------------ bounds
MaxPathLen == 5
MaxSegs == 2
MaxHistory == 3
MaxLoads == 2
\* Watch mode: the changes made while the process runs.
MaxChanges == 2

\* ------------------------------------------------------------- JS strings
Slash == "/"

\* Characters pathnames are built from: the separator, two letters that
\* differ only in case, the escape character and one hexadecimal digit.
PathChars == {"/", "u", "U", "%", "2"}

RECURSIVE StringsUpTo(_)
StringsUpTo(n) ==
    IF n = 0 THEN {<<>>}
    ELSE LET shorter == StringsUpTo(n - 1)
         IN  shorter \cup {Append(s, c) : s \in {t \in shorter : Len(t) = n - 1}, c \in PathChars}

\* The pathnames of at most n characters a URL can carry: they start with
\* the separator; the empty string stands for a missing pathname.
PathnamesUpTo(n) == {<<>>} \cup {<<Slash>> \o s : s \in StringsUpTo(n - 1)}

EndsWithSlash(p) == Len(p) > 0 /\ p[Len(p)] = Slash

\* p.slice(0, -1)
DropLast(p) == SubSeq(p, 1, Len(p) - 1)

normalizePathname(p) ==
    IF p = <<>> THEN <<Slash>>
    ELSE IF p # <<Slash>> /\ EndsWithSlash(p) THEN DropLast(p)
    ELSE p

\* p.split('/'): the pieces between separators, empty pieces included.
RECURSIVE SplitOnSlash(_, _, _)
SplitOnSlash(p, k, piece) ==
    IF k > Len(p) THEN <<piece>>
    ELSE IF p[k] = Slash THEN <<piece>> \o SplitOnSlash(p, k + 1, <<>>)
    ELSE SplitOnSlash(p, k + 1, Append(piece, p[k]))

\* .filter(Boolean) on an array of strings keeps the non-empty ones.
FilterBoolean(pieces) == SelectSeq(pieces, LAMBDA x : x # <<>>)

\* Mutant: the empty pieces are kept.
splitPathnameNoFilter(pathnameArg) ==
    LET p == normalizePathname(pathnameArg)
    IN  IF p = <<Slash>> THEN <<>> ELSE SplitOnSlash(p, 1, <<>>)

splitPathname(pathnameArg) ==
    LET p == normalizePathname(pathnameArg)
    IN  IF p = <<Slash>> THEN <<>> ELSE FilterBoolean(SplitOnSlash(p, 1, <<>>))

\* ----------------------------------------------------- decodeURIComponent
\* Hexadecimal digits among the characters the model uses.
IsHex(c) == c \in {"0", "2"}
HexVal(c) == IF c = "2" THEN 2 ELSE 0

\* The character with the given code (all codes reachable here are ASCII).
Chr(n) ==
    CASE n = 34 -> "\""
      [] n = 32 -> " "
      [] n = 2  -> "STX"
      [] OTHER  -> "NUL"

\* decodeURIComponent throws URIError unless every '%' is followed by two
\* hexadecimal digits.
RECURSIVE WellFormed(_, _)
WellFormed(s, k) ==
    IF k > Len(s) THEN TRUE
    ELSE IF s[k] = "%"
         THEN k + 2 <= Len(s) /\ IsHex(s[k + 1]) /\ IsHex(s[k + 2]) /\ WellFormed(s, k + 3)
         ELSE WellFormed(s, k + 1)

RECURSIVE DecodeFrom(_, _)
DecodeFrom(s, k) ==
    IF k > Len(s) THEN <<>>
    ELSE IF s[k] = "%"
         THEN <<Chr(16 * HexVal(s[k + 1]) + HexVal(s[k + 2]))>> \o DecodeFrom(s, k + 3)
         ELSE <<s[k]>> \o DecodeFrom(s, k + 1)

\* Mutant: an escape only has to be complete, not hexadecimal.
RECURSIVE EscapesComplete(_, _)
EscapesComplete(s, k) ==
    IF k > Len(s) THEN TRUE
    ELSE IF s[k] = "%" THEN k + 2 <= Len(s) /\ EscapesComplete(s, k + 3)
    ELSE EscapesComplete(s, k + 1)

DecodableIfComplete(s) == EscapesComplete(s, 1)

Decodable(s) == WellFormed(s, 1)

decodeURIComponent(s) == DecodeFrom(s, 1)

\* ------------------------------------------------------------- matchRoute
\* Segment values and names are strings of the route's file path.
Static(v) == [kind |-> "static", value |-> v]
Param(n) == [kind |-> "param", name |-> n]
CatchAll(n) == [kind |-> "catchAll", name |-> n]

\* Params values: a decoded string, or an array of decoded strings.
Str(s) == [t |-> "string", v |-> s]
Arr(l) == [t |-> "array", v |-> l]

\* The name whose assignment on an object literal goes to the accessor
\* inherited from Object.prototype.
Proto == <<"_", "_", "p", "r", "o", "t", "o", "_", "_">>

\* Ordinary names of a param and of a catch-all.
Id == <<"i", "d">>
Rest == <<"r", "e", "s", "t">>

\* What an object literal inherits from.
ObjectPrototype == [t |-> "object", v |-> <<>>]

Unset == [kind |-> "unset"]
NoMatch == [kind |-> "null"]
URIError == [kind |-> "throw"]
Matched(params) == [kind |-> "params", params |-> params]

\* params[name] = value. params is an object literal, given here by its own
\* properties and its prototype: an assignment to '__proto__' goes to the
\* setter it inherits and creates no own property (a string is dropped, an
\* array becomes the object's prototype).
Put(params, name, value) ==
    IF name = Proto
    THEN IF value.t = "array" THEN [params EXCEPT !.proto = value] ELSE params
    ELSE [params EXCEPT !.own = [n \in DOMAIN params.own \cup {name} |->
                                    IF n = name THEN value ELSE params.own[n]]]

\* const params: Params = {}
EmptyParams == [own |-> [n \in {} |-> Str(<<>>)], proto |-> ObjectPrototype]

\* parts.slice(i)
SliceFrom(parts, i) == SubSeq(parts, i + 1, Len(parts))

\* Mutant: the walk goes on with the segment after the catch-all.
NextSegment(segs, k) == k + 1

\* break: no segment after the catch-all at position k is visited.
Break(segs, k) == Len(segs) + 1

\* The loop of matchRoute: k is the segment visited, i the cursor into parts
\* (0-based as in the source).
RECURSIVE Walk(_, _, _, _, _)
Walk(segs, parts, k, i, params) ==
    IF k > Len(segs)
    THEN IF i # Len(parts) THEN NoMatch ELSE Matched(params)
    ELSE LET seg == segs[k] IN
         CASE seg.kind = "static" ->
                IF i >= Len(parts) \/ parts[i + 1] # seg.value THEN NoMatch
                ELSE Walk(segs, parts, k + 1, i + 1, params)
           [] seg.kind = "param" ->
                IF i >= Len(parts) THEN NoMatch
                ELSE IF ~Decodable(parts[i + 1]) THEN URIError
                ELSE Walk(segs, parts, k + 1, i + 1,
                          Put(params, seg.name, Str(decodeURIComponent(parts[i + 1]))))
           [] OTHER ->
                LET rest == SliceFrom(parts, i) IN
                IF \E j \in 1..Len(rest) : ~Decodable(rest[j]) THEN URIError
                ELSE Walk(segs, parts, Break(segs, k), Len(parts),
                          Put(params, seg.name,
                              Arr([j \in 1..Len(rest) |-> decodeURIComponent(rest[j])])))

matchRoute(segs, pathnameArg) == Walk(segs, splitPathname(pathnameArg), 1, 0, EmptyParams)

\* ---------------------------------------------------------------- browser
\* new URL(to, window.location.origin): the pathname is what precedes the
\* first '?', made absolute against the origin's root; the search is the
\* rest. (The characters used here need no further URL normalisation.)
RECURSIVE IndexOfQuery(_, _)
IndexOfQuery(to, k) ==
    IF k > Len(to) THEN 0
    ELSE IF to[k] = "?" THEN k
    ELSE IndexOfQuery(to, k + 1)

\* A reference that starts with two slashes names a host of its own: the
\* slashes are skipped and the host runs up to the next '/' or '?'.
NamesHost(to) == Len(to) >= 2 /\ to[1] = Slash /\ to[2] = Slash

RECURSIVE HostFrom(_, _, _)
HostFrom(to, k, inHost) ==
    IF k > Len(to) THEN <<>>
    ELSE IF to[k] = Slash /\ ~inHost THEN HostFrom(to, k + 1, FALSE)
    ELSE IF to[k] \in {Slash, "?"} THEN <<>>
    ELSE <<to[k]>> \o HostFrom(to, k + 1, TRUE)

\* Code points no host may hold once it is percent-decoded: a '%' that
\* starts no escape, and the control characters.
ForbiddenHostChars == {"%", "STX", "NUL"}

HostLower(c) == IF c = "U" THEN "u" ELSE c

\* A '%' of the host that starts an escape is decoded, any other is kept.
RECURSIVE PercentDecode(_, _)
PercentDecode(s, k) ==
    IF k > Len(s) THEN <<>>
    ELSE IF s[k] = "%" /\ k + 2 <= Len(s) /\ IsHex(s[k + 1]) /\ IsHex(s[k + 2])
         THEN <<Chr(16 * HexVal(s[k + 1]) + HexVal(s[k + 2]))>> \o PercentDecode(s, k + 3)
         ELSE <<s[k]>> \o PercentDecode(s, k + 1)

\* A space of the decoded host written as the escape again.
RECURSIVE EscapeSpaces(_, _)
EscapeSpaces(s, k) ==
    IF k > Len(s) THEN <<>>
    ELSE IF s[k] = " " THEN <<"%", "2", "0">> \o EscapeSpaces(s, k + 1)
    ELSE <<s[k]>> \o EscapeSpaces(s, k + 1)

\* What the host parser gives: a failure, a domain, or an IPv4 address.
HostFailure == [kind |-> "failure", value |-> <<>>]
Domain(chars) == [kind |-> "domain", value |-> chars]
IPv4(quad) == [kind |-> "ipv4", value |-> quad]

\* The number a string of digits denotes in the radix, as <<high, low>>
\* halves of 16 bits; a high half of 65536 stands for 2^32 or more.
RECURSIVE NumberFrom(_, _, _, _)
NumberFrom(s, k, radix, acc) ==
    IF k > Len(s) THEN acc
    ELSE LET low == acc[2] * radix + HexVal(s[k])
             high == acc[1] * radix + (low \div 65536)
         IN  IF high >= 65536 THEN <<65536, 0>>
             ELSE NumberFrom(s, k + 1, radix, <<high, low % 65536>>)

\* The IPv4 number parser: a leading 0 announces an octal number.
ParseIPv4Number(s) ==
    IF Len(s) >= 2 /\ s[1] = "0" THEN NumberFrom(s, 2, 8, <<0, 0>>)
    ELSE NumberFrom(s, 1, 10, <<0, 0>>)

\* The host parser: the host is percent-decoded and lowercased; a forbidden
\* code point fails it; a host that is a number is an IPv4 address. A space
\* (written %20) is a forbidden code point of the URL Standard, and engines
\* differ on it: it fails the host, or it is kept as the escape.
ParseHost(raw) ==
    LET decoded == PercentDecode(raw, 1)
        lower == [k \in 1..Len(decoded) |-> HostLower(decoded[k])]
        number == ParseIPv4Number(lower)
    IN  IF raw = <<>> \/ \E k \in 1..Len(lower) : lower[k] \in ForbiddenHostChars
        THEN {HostFailure}
        ELSE IF \E k \in 1..Len(lower) : lower[k] = " "
        THEN {HostFailure, Domain(EscapeSpaces(lower, 1))}
        ELSE IF \A k \in 1..Len(lower) : IsHex(lower[k])
        THEN IF number[1] >= 65536 THEN {HostFailure}
             ELSE {IPv4(<<number[1] \div 256, number[1] % 256,
                          number[2] \div 256, number[2] % 256>>)}
        ELSE {Domain(lower)}

\* new URL throws a TypeError: no host, or a host the host parser fails.
InvalidURL == [threw |-> "TypeError"]
\* A URL of another origin, which history.pushState refuses (SecurityError).
OtherOrigin(host) == [host |-> host]

\* The URL of a reference that names no host: a URL of the document's
\* origin.
LocalURL(to) ==
    LET q == IndexOfQuery(to, 1)
        rawPath == IF q = 0 THEN to ELSE SubSeq(to, 1, q - 1)
        rawSearch == IF q = 0 THEN <<>> ELSE SubSeq(to, q, Len(to))
    IN  [pathname |-> IF rawPath = <<>> \/ rawPath[1] # Slash
                      THEN <<Slash>> \o rawPath ELSE rawPath,
         \* a lone '?' yields an empty search
         search |-> IF Len(rawSearch) = 1 THEN <<>> ELSE rawSearch]

\* The outcomes of new URL(to, window.location.origin): one, except where
\* engines differ on the host.
ParseURL(to) ==
    IF NamesHost(to)
    THEN {IF h.kind = "failure" THEN InvalidURL ELSE OtherOrigin(h) :
              h \in ParseHost(HostFrom(to, 1, FALSE))}
    ELSE {LocalURL(to)}

\* The URL is one pushState accepts: a URL of the document's origin.
SameOrigin(url) == DOMAIN url = {"pathname", "search"}

WindowLocation == history[hidx]

\* ----------------------------------------------------------- page modules
Undefined == "undefined"
Null == "null"

\* The names the generated layouts mapping has a loader for: one per file
\* of web/layouts (global.tsx).
LayoutNames == {"global"}

\* A page module's layout selector: absent, a literal name, or a function.
SelUnresolved == [kind |-> "unresolved"]
SelAbsent == [kind |-> "absent"]
SelString(n) == [kind |-> "string", value |-> n]
SelFunction(ret) == [kind |-> "function", returns |-> ret]
Throws == "throws"
NotAString == "notAString"

LayoutSelectors ==
    {SelAbsent, SelString("ghost"), SelString("hasOwnProperty"), SelString("toString"),
     SelFunction("global"), SelFunction(Throws)}

\* The generated layouts mapping is an object literal, so a lookup by name
\* also finds what Object.prototype gives every object. typeof of the
\* looked-up value:
InheritedMethods ==
    {"constructor", "hasOwnProperty", "isPrototypeOf", "propertyIsEnumerable",
     "toLocaleString", "toString", "valueOf",
     "__defineGetter__", "__defineSetter__", "__lookupGetter__", "__lookupSetter__"}

TypeofLoader(layoutName) ==
    IF layoutName \in LayoutNames \cup InheritedMethods THEN "function"
    ELSE IF layoutName = "__proto__" THEN "object"
    ELSE Undefined

\* loader(): a layout's loader returns the promise of its import; an
\* inherited method, called without a receiver and without arguments,
\* returns a value that is no module or throws a TypeError.
ReturnsPromise == [kind |-> "promise"]
Returns(v) == [kind |-> "value", value |-> v]
ThrowsTypeError == [kind |-> "throw"]

CallLoader(layoutName) ==
    CASE layoutName \in LayoutNames -> ReturnsPromise
      [] layoutName = "toString" -> Returns("[object Undefined]")
      [] layoutName = "constructor" -> Returns("{}")
      [] layoutName = "isPrototypeOf" -> Returns("false")
      [] OTHER -> ThrowsTypeError

\* getDefaultExport(layoutMod) of what the awaited call gave: the default
\* export of the layout's module (named after the layout), or the value
\* itself.
getDefaultExport(layoutName) ==
    IF layoutName \in LayoutNames THEN layoutName ELSE CallLoader(layoutName).value

resolveLayoutName(sel) ==
    CASE sel.kind = "absent" -> Undefined
      [] sel.kind = "string" -> IF sel.value = "" THEN Undefined ELSE sel.value
      [] OTHER -> IF sel.returns \in {Throws, NotAString} THEN Undefined ELSE sel.returns

\* A module's metadata export: absent, or {title?, description?}.
NoMetadata == [present |-> FALSE, title |-> Undefined, description |-> Undefined]
Metadata(title, description) ==
    [present |-> TRUE, title |-> title, description |-> description]

\* The metadata export of the page in a file (pages of the modelled site).
MetadataOf(file) ==
    CASE file = "u/[id].tsx" -> Metadata("user", Undefined)
      [] file = "u/U.tsx" -> Metadata(Undefined, "about U")
      [] file = "index.tsx" -> Metadata("home", "the site")
      [] file = "u.tsx" -> Metadata("u", Undefined)
      [] OTHER -> NoMetadata

\* The modules importPage() of a file can resolve to: with or without a
\* default export, with any layout selector.
PageModules(file) ==
    [default : {file, Undefined}, layout : LayoutSelectors, metadata : {MetadataOf(file)}]

\* applyMetadata(meta): the title and description tags afterwards.
applyMetadataTitle(meta) ==
    IF ~meta.present THEN docTitle
    ELSE IF meta.title # Undefined THEN meta.title ELSE docTitle

\* Mutant: a description tag is created on every call.
applyMetadataTagsAppended(meta) ==
    IF ~meta.present THEN descTags
    ELSE IF meta.description = Undefined THEN descTags
    ELSE Append(descTags, meta.description)

applyMetadataTags(meta) ==
    IF ~meta.present THEN descTags
    ELSE IF meta.description = Undefined THEN descTags
    ELSE IF descTags = <<>> THEN <<meta.description>>
    ELSE [descTags EXCEPT ![1] = meta.description]

\* ------------------------------------------------------------- FileRouter
Route(file, segs) == [file |-> file, segments |-> segs]

NoRoute == [kind |-> "none"]
MatchThrew == [kind |-> "throw"]

\* The loop of the match memo: the first route whose matchRoute is non-null.
RECURSIVE FindMatchFrom(_, _, _)
FindMatchFrom(rts, path, k) ==
    IF k > Len(rts) THEN NoRoute
    ELSE LET params == matchRoute(rts[k].segments, path) IN
         IF params.kind = "throw" THEN MatchThrew
         ELSE IF params.kind = "params"
              THEN [kind |-> "route", index |-> k, route |-> rts[k], params |-> params.params]
              ELSE FindMatchFrom(rts, path, k + 1)

FindMatch(rts, path) == FindMatchFrom(rts, path, 1)

\* The branch a render takes: the early return, or the routed tree.
Branch(m) == IF m.kind = "route" THEN "route" ELSE "notFound"

NoLoc == [pathname |-> <<>>, search |-> <<>>]
LoadedNull == [Page |-> Null, Layout |-> Null]
ErrorNull == [kind |-> Null, file |-> Null]
\* The reason of a promise rejected with nothing: Promise.reject(), throw
\* undefined.
ErrorUndefined == [kind |-> Undefined, file |-> Undefined]

\* No call of setLoaded, no call of setLoadError waits for a render.
LoadedNoUpdate == [Page |-> "noUpdate", Layout |-> "noUpdate"]
ErrorNoUpdate == [kind |-> "noUpdate", file |-> "noUpdate"]

\* The test `loadError ?` of the render.
Truthy(err) == err.kind \notin {Null, Undefined}

\* What a component slot accepts: the component a module exports.
IsComponent(x) == x \in LayoutNames

\* The test `loaded.Layout ?` of the render.
LayoutSet(layout) == layout \notin {Undefined, "false"}

\* <loaded.Layout> with a Layout that is set and no component: React throws
\* while it renders the element (a string that is no tag name, an object
\* that is no element type).
RenderThrows(layout) == LayoutSet(layout) /\ ~IsComponent(layout)
NoFile == "none"

\* The match of the committed render.
CurrentMatch == match

\* Mutant: only the pathname is refreshed, the search stays as it was.
ReadLocationPathnameOnly(url) ==
    [pathname |-> normalizePathname(url.pathname), search |-> loc.search]

\* The location snapshot onPop and the loc initialiser take.
ReadLocation(url) == [pathname |-> normalizePathname(url.pathname), search |-> url.search]

\* What the committed tree shows. For the FileRouter built on React.lazy,
\* loaded holds the page its Suspense boundary shows (null: the fallback).
View ==
    IF status # "mounted" THEN "blank"
    ELSE IF rendered = "notFound" THEN "notFound"
    ELSE IF Truthy(loadError) THEN "error"
    ELSE IF loaded = LoadedNull THEN "loading"
    ELSE "page"

\* Mutant: the load effect also depends on whether there is a query string.
EffectDepsWithSearch(m, l) == IF l.search # <<>> THEN "?" ELSE m.route.file

\* The dependency list of the load effect, and of the memo that holds the
\* lazy page: [match.route.file].
EffectDeps(m, l) == m.route.file

\* The passive effects of the first commit have not run yet: React runs
\* them in a task of their own.
EffectsPending == status = "mounted" /\ ~subscribed

\* A render threw while the effects were in place, and React has not run
\* their cleanups yet.
CleanupPending == status = "crashed" /\ subscribed

\* onPop has called setLoc and React has not rendered the update yet: it
\* does so when the code that called navigate has returned.
UpdatePending == queuedLoc # NoLoc

\* setState(v) of a state hook whose rendered value is committed: React
\* queues the update and renders it in a later task; the last call decides,
\* and a call that leaves the value as it is asks for no render.
Queue(v, committed, noUpdate) == IF v = committed THEN noUpdate ELSE v

\* The value a state hook takes at the render that takes up its queue.
Pending(queued, committed, noUpdate) == IF queued = noUpdate THEN committed ELSE queued

NextLoaded == Pending(queuedLoaded, loaded, LoadedNoUpdate)
NextLoadError == Pending(queuedLoadError, loadError, ErrorNoUpdate)

\* A load attempt: one run of the async function of the load effect, or of
\* the loader given to React.lazy. page and layoutName are its locals while
\* it awaits the layout loader; thrown is what the function threw, until
\* the handler given to .catch has received it; a lazy page keeps the
\* default export of the module it resolved to.
NewLoad(file) ==
    [file |-> file, cancelled |-> FALSE, pc |-> "page", page |-> Undefined,
     layoutName |-> Undefined, thrown |-> ErrorNull, outcome |-> "pending"]

\* The attempt started by the last run of the load effect, or for the lazy
\* page of the last render (0 when none).
CurrentLoad == IF effectFile = NoFile THEN 0 ELSE Len(loads)

NoModule == [default |-> Null, layout |-> SelUnresolved, metadata |-> NoMetadata]

\* The load effect's cleanup sets the cancelled flag of the attempt it
\* started. The loader of a lazy page has no such flag.
CancelCurrent(ls) ==
    IF kind = "lazy" \/ effectFile = NoFile \/ ls = <<>> THEN ls
    ELSE [ls EXCEPT ![Len(ls)].cancelled = TRUE]

\* Errors the catch handler can receive.
ImportError(file) == [kind |-> "importPage rejected", file |-> file]
LayoutImportError(name) == [kind |-> "layout loader rejected", file |-> name]
LoaderTypeError(name) == [kind |-> "TypeError", file |-> name]

\* What an import can reject with: an error, or nothing at all.
PageRejections(file) == {ImportError(file), ErrorUndefined}
LayoutRejections(name) == {LayoutImportError(name), ErrorUndefined}
MissingDefault(file) == [kind |-> "Route module missing default export", file |-> file]

\* What the async function does between the page import and its next
\* suspension: resolve the layout name, then either await the layout's
\* loader or go on without a layout (an unknown name only logs a warning).
AwaitLayout(name) == [next |-> "awaitLayout", name |-> name]
GoOn == [next |-> "finish", name |-> Undefined]
Throw(err) == [next |-> "throw", name |-> Undefined, error |-> err]

\* One call of applyMetadata(meta).
applyMetadata(meta) ==
    /\ docTitle' = applyMetadataTitle(meta)
    /\ descTags' = applyMetadataTags(meta)

AfterPage(mod) ==
    LET layoutName == resolveLayoutName(mod.layout) IN
    IF layoutName = Undefined THEN GoOn
    ELSE IF TypeofLoader(layoutName) = "function"
         THEN IF CallLoader(layoutName) = ThrowsTypeError
              THEN Throw(LoaderTypeError(layoutName))
              ELSE AwaitLayout(layoutName)
         ELSE GoOn

\* Mutant: the result is committed without looking at the cancelled flag.
MayCommitAlways(load) == TRUE

\* The guard of both commits: if (!cancelled) setLoaded, if (cancelled) return.
MayCommit(load) == ~load.cancelled

\* Mutant: the default export is not checked.
PageOrThrowUnchecked(file, default) == [threw |-> FALSE, page |-> default]

\* const Page = pageMod.default; if (!Page) throw new Error(...file)
PageOrThrow(file, default) ==
    IF default = Undefined
    THEN [threw |-> TRUE, error |-> MissingDefault(file)]
    ELSE [threw |-> FALSE, page |-> default]

\* The async function of an attempt has returned, or the handler given to
\* .catch has run: the locals are gone, what the attempt did remains.
Settled(load, how) ==
    [load EXCEPT !.pc = "done", !.page = Undefined, !.layoutName = Undefined,
                 !.thrown = ErrorNull, !.outcome = how]

\* Which setter the attempt calls at its end, if any.
Outcome(load, setter) == IF MayCommit(load) THEN setter ELSE "ignored"

\* The setter call reaches the component: the attempt may commit, and React
\* ignores a call for a component it has unmounted.
Reaches(load) == MayCommit(load) /\ status = "mounted"

\* The async function of attempt a throws err: its promise is rejected, and
\* the handler given to .catch is a promise job of its own, run after the
\* jobs already queued.
Thrown(a, err) ==
    /\ loads' = [loads EXCEPT ![a].pc = "thrown", ![a].page = Undefined,
                              ![a].layoutName = Undefined, ![a].thrown = err]
    /\ UNCHANGED <<queuedLoaded, queuedLoadError>>

\* The catch handler of attempt a receiving err: if (cancelled) return;
\* setLoadError(err).
Caught(a, err) ==
    /\ loads' = [loads EXCEPT ![a] = Settled(loads[a], Outcome(loads[a], "setLoadError"))]
    /\ queuedLoadError' = IF Reaches(loads[a]) THEN Queue(err, loadError, ErrorNoUpdate)
                          ELSE queuedLoadError
    /\ UNCHANGED queuedLoaded

\* The tail of the async function of attempt a: the default-export check,
\* which throws, or setLoaded({ Page, Layout }).
Finish(a, default, layout) ==
    LET p == PageOrThrow(loads[a].file, default) IN
    IF p.threw
    THEN Thrown(a, p.error)
    ELSE /\ loads' = [loads EXCEPT ![a] = Settled(loads[a], Outcome(loads[a], "setLoaded"))]
         /\ queuedLoaded' = IF Reaches(loads[a])
                            THEN Queue([Page |-> p.page, Layout |-> layout], loaded,
                                       LoadedNoUpdate)
                            ELSE queuedLoaded
         /\ UNCHANGED queuedLoadError

\* window.addEventListener('popstate', onPop), with a new onPop.
AddListener(n) == n + 1

\* Mutant: the cleanup leaves the listener registered.
RemoveListenerSkipped(n) == n

\* window.removeEventListener('popstate', onPop), with the onPop registered.
RemoveListener(n) == n - 1

\* No call is being handled.
NoClick == [kind |-> "none"]

\* The state of the mounted component, its effects and its load attempts.
instanceVars == <<status, rendered, subscribed, listeners, loc, queuedLoc, match, loaded,
                  loadError, queuedLoaded, queuedLoadError, effectFile, loads, pageMod>>

\* What a render and its commit leave alone unless the load effect runs.
loadVars == <<loaded, loadError, queuedLoaded, queuedLoadError, effectFile, loads, pageMod>>

\* A render threw: nothing catches the error, and React unmounts the root
\* and drops the component's state. rendered keeps what threw. The cleanups
\* of the effects in place run in the same task or in a later one.
Unmounted(cause) ==
    /\ status' = "crashed"
    /\ rendered' = cause
    /\ loc' = NoLoc
    /\ queuedLoc' = NoLoc
    /\ match' = NoRoute
    /\ loaded' = LoadedNull
    /\ loadError' = ErrorNull
    /\ queuedLoaded' = LoadedNoUpdate
    /\ queuedLoadError' = ErrorNoUpdate
    /\ pageMod' = NoModule
    /\ IF ~subscribed
       THEN /\ effectFile' = NoFile
            /\ UNCHANGED <<subscribed, listeners, loads>>
       ELSE \/ /\ subscribed' = FALSE
               /\ listeners' = RemoveListener(listeners)
               /\ effectFile' = NoFile
               /\ loads' = CancelCurrent(loads)
            \/ UNCHANGED <<subscribed, listeners, effectFile, loads>>

\* React runs the cleanups a render that threw has left: onPop is removed
\* and the load attempt cancelled.
Cleanup ==
    /\ CleanupPending
    /\ subscribed' = FALSE
    /\ listeners' = RemoveListener(listeners)
    /\ effectFile' = NoFile
    /\ loads' = CancelCurrent(loads)
    /\ click' = NoClick
    /\ UNCHANGED <<buildVars, browserVars, documentVars, routes, kind, status, rendered, loc,
                   queuedLoc, match, loaded, loadError, queuedLoaded, queuedLoadError,
                   pageMod>>

\* What the routed tree of the layout-aware FileRouter renders from its
\* state.
Shows(ld, le) ==
    IF Truthy(le) THEN "error"
    ELSE IF ld = LoadedNull THEN "loading"
    ELSE IF RenderThrows(ld.Layout) THEN "throws"
    ELSE "page"

\* What <Page /> of the lazy FileRouter renders: the fallback while the
\* loader's promise is pending; a rejection is thrown again, and so is the
\* lack of a default export.
LazyShows(load) ==
    IF load.pc # "done" THEN "loading"
    ELSE IF load.outcome = "rejected" \/ load.page = Undefined THEN "throws"
    ELSE "page"

\* The page a lazy attempt gives the Suspense boundary.
LazyPage(load) ==
    IF LazyShows(load) = "page" THEN [Page |-> load.page, Layout |-> Undefined]
    ELSE LoadedNull

\* Mutant: the effect leaves the previously loaded page in place.
ResetLoadedSkipped(queued, committed) == queued

\* setLoaded(null) at the start of the load effect.
ResetLoaded(queued, committed) == Queue(LoadedNull, committed, LoadedNoUpdate)

\* setLoadError(null) at the start of the load effect.
ResetLoadError(queued, committed) == Queue(ErrorNull, committed, ErrorNoUpdate)

\* The body of the load effect for a match m at location l, after a render
\* that left ld and le in the state hooks and qld and qle in their queues,
\* the cleanup of its previous run first.
RunLoadEffect(m, l, ld, le, qld, qle) ==
    /\ loads' = Append(CancelCurrent(loads), NewLoad(m.route.file))
    /\ effectFile' = EffectDeps(m, l)
    /\ queuedLoaded' = ResetLoaded(qld, ld)
    /\ queuedLoadError' = ResetLoadError(qle, le)
    /\ pageMod' = NoModule

\* One render of FileRouter with the location snapshot newLoc, and its
\* commit. The first render is the one createRoot(el).render asks for; any
\* other renders an update of loc, in the lane of discrete events: React
\* takes up with it the updates of loaded and loadError queued so far
\* (take) or leaves them to their own render, and runs the passive effects
\* of the commit before it returns. A throw inside the render (matchRoute's
\* URIError, React's hook-order check when the early return makes a render
\* call fewer or more hooks than the one before, an element whose type is no
\* component) unmounts the root.
Render(newLoc, take) ==
    LET m == FindMatch(routes, newLoc.pathname)
        first == status = "unmounted"
        routed == m.kind = "route"
        ld == IF take THEN NextLoaded ELSE loaded
        le == IF take THEN NextLoadError ELSE loadError
        qld == IF take THEN LoadedNoUpdate ELSE queuedLoaded
        qle == IF take THEN ErrorNoUpdate ELSE queuedLoadError
        changed == routed /\ EffectDeps(m, newLoc) # effectFile
        lazyPage == IF changed THEN NewLoad(m.route.file) ELSE loads[CurrentLoad]
        cause == IF m.kind = "throw" THEN "matchRoute"
                 ELSE IF ~first /\ Branch(m) # rendered THEN "hooks"
                 ELSE IF kind = "layouts" /\ routed /\ Shows(ld, le) = "throws" THEN "Layout"
                 ELSE IF kind = "lazy" /\ routed /\ LazyShows(lazyPage) = "throws" THEN "Page"
                 ELSE "none"
    IN  IF cause # "none"
        THEN Unmounted(cause)
        ELSE /\ status' = "mounted"
             /\ rendered' = Branch(m)
             /\ loc' = newLoc
             /\ queuedLoc' = NoLoc
             /\ match' = m
             /\ UNCHANGED <<subscribed, listeners>>
             /\ IF kind = "layouts"
                THEN /\ loaded' = ld
                     /\ loadError' = le
                     /\ IF changed /\ ~first
                        THEN RunLoadEffect(m, newLoc, ld, le, qld, qle)
                        ELSE /\ queuedLoaded' = qld
                             /\ queuedLoadError' = qle
                             /\ UNCHANGED <<effectFile, loads, pageMod>>
                ELSE /\ loaded' = IF routed THEN LazyPage(lazyPage) ELSE LoadedNull
                     /\ IF changed
                        THEN /\ loads' = Append(loads, NewLoad(m.route.file))
                             /\ effectFile' = EffectDeps(m, newLoc)
                             /\ pageMod' = NoModule
                        ELSE UNCHANGED <<effectFile, loads, pageMod>>
                     /\ UNCHANGED <<loadError, queuedLoaded, queuedLoadError>>

\* What React may do, at the render of an update of loc, with the calls of
\* setLoaded and setLoadError queued: take them up or leave them.
TakeChoices ==
    IF queuedLoaded # LoadedNoUpdate \/ queuedLoadError # ErrorNoUpdate THEN BOOLEAN
    ELSE {FALSE}

\* createRoot(el).render(<FileRouter routes={routes} />): the first render.
\* The lazy FileRouter calls the loader of its page while it renders.
Mount ==
    /\ status = "unmounted"
    /\ routes # <<>>
    /\ Render(ReadLocation(WindowLocation), FALSE)
    /\ click' = NoClick
    /\ UNCHANGED <<buildVars, browserVars, documentVars, routes, kind>>

\* The passive effects of the first commit: onPop is subscribed, and the
\* layout-aware FileRouter with a match runs its load effect.
FlushEffects ==
    /\ EffectsPending
    /\ subscribed' = TRUE
    /\ listeners' = AddListener(listeners)
    /\ IF kind = "layouts" /\ rendered = "route"
       THEN RunLoadEffect(CurrentMatch, loc, loaded, loadError, queuedLoaded, queuedLoadError)
       ELSE UNCHANGED <<queuedLoaded, queuedLoadError, effectFile, loads, pageMod>>
    /\ click' = NoClick
    /\ UNCHANGED <<buildVars, browserVars, documentVars, routes, kind, status, rendered, loc,
                   queuedLoc, match, loaded, loadError>>

\* The lazy page of the last render has settled and React has not rendered
\* the Suspense boundary again yet.
LazyRetry ==
    /\ kind = "lazy"
    /\ rendered = "route"
    /\ loaded = LoadedNull
    /\ CurrentLoad > 0
    /\ loads[CurrentLoad].pc = "done"

\* A render for which no update of loc has asked waits to be done.
RenderOwed ==
    IF kind = "layouts"
    THEN queuedLoaded # LoadedNoUpdate \/ queuedLoadError # ErrorNoUpdate
    ELSE LazyRetry

\* React renders what has been queued outside of an event: the calls of
\* setLoaded and setLoadError made by the load effect and by the attempt it
\* started, or the lazy page that has settled.
RenderDeferred ==
    /\ status = "mounted"
    /\ ~EffectsPending
    /\ ~UpdatePending
    /\ RenderOwed
    /\ IF kind = "layouts"
       THEN IF Shows(NextLoaded, NextLoadError) = "throws"
            THEN Unmounted("Layout")
            ELSE /\ loaded' = NextLoaded
                 /\ loadError' = NextLoadError
                 /\ queuedLoaded' = LoadedNoUpdate
                 /\ queuedLoadError' = ErrorNoUpdate
                 /\ UNCHANGED <<status, rendered, subscribed, listeners, loc, queuedLoc, match,
                                effectFile, loads, pageMod>>
       ELSE IF LazyShows(loads[CurrentLoad]) = "throws"
            THEN Unmounted("Page")
            ELSE /\ loaded' = LazyPage(loads[CurrentLoad])
                 /\ UNCHANGED <<status, rendered, subscribed, listeners, loc, queuedLoc, match,
                                loadError, queuedLoaded, queuedLoadError, effectFile, loads,
                                pageMod>>
    /\ click' = NoClick
    /\ UNCHANGED <<buildVars, browserVars, documentVars, routes, kind>>

\* The host unmounts the root: React runs the passive effects still owed
\* and then the cleanup of every effect, in the call, and drops the
\* component's state; loc is kept as the last Location it had.
Unmount ==
    /\ status = "mounted"
    /\ status' = "torndown"
    /\ rendered' = "none"
    /\ subscribed' = FALSE
    /\ listeners' = (IF subscribed THEN RemoveListener(listeners)
                     ELSE RemoveListener(AddListener(listeners)))
    /\ loaded' = LoadedNull
    /\ loadError' = ErrorNull
    /\ queuedLoaded' = LoadedNoUpdate
    /\ queuedLoadError' = ErrorNoUpdate
    /\ effectFile' = NoFile
    /\ loads' = IF EffectsPending /\ kind = "layouts" /\ rendered = "route"
                THEN Append(loads, [NewLoad(CurrentMatch.route.file) EXCEPT !.cancelled = TRUE])
                ELSE CancelCurrent(loads)
    /\ pageMod' = NoModule
    /\ match' = NoRoute
    /\ queuedLoc' = NoLoc
    /\ click' = NoClick
    /\ UNCHANGED <<buildVars, browserVars, documentVars, routes, kind, loc>>

\* onPop, when it is registered: one call of setLoc with a new snapshot of
\* window.location. The call queues the update and returns (React drops an
\* update of a component that is gone).
onPop ==
    queuedLoc' = IF listeners > 0 /\ status = "mounted"
                 THEN ReadLocation(WindowLocation')
                 ELSE queuedLoc

\* window.history.pushState({}, '', url)
pushState(url) ==
    /\ history' = Append(SubSeq(history, 1, hidx), url)
    /\ hidx' = hidx + 1

\* navigate(to): new URL, pushState, then a synthetic popstate event. new
\* URL or pushState throws for a URL outside the document's origin, and then
\* nothing is pushed and no event dispatched.
navigate(to) ==
    \E url \in ParseURL(to) :
        IF SameOrigin(url)
        THEN pushState(url) /\ onPop
        ELSE UNCHANGED <<history, hidx, queuedLoc>>

\* Code of the application calls the navigate function of the route context
\* (or, once the router is gone, something that kept the function calls
\* it). Only what the router has rendered can hold the function, so the
\* first commit and its effects are over. The call returns before React
\* renders: what called it goes on, and may call it again.
Navigate(to) ==
    /\ status \in {"mounted", "torndown", "crashed"}
    /\ ~EffectsPending
    /\ Len(history) < MaxHistory
    /\ Len(loads) < MaxLoads
    /\ navigate(to)
    /\ click' = [kind |-> "navigate", to |-> to]
    /\ UNCHANGED <<buildVars, documentVars, routes, kind, status, rendered, subscribed,
                   listeners, loc, match, loadVars>>

\* React renders the update of loc onPop has queued, once the code that
\* called navigate has returned.
RenderUpdate ==
    /\ status = "mounted"
    /\ UpdatePending
    /\ \E take \in TakeChoices : Render(queuedLoc, take)
    /\ click' = NoClick
    /\ UNCHANGED <<buildVars, browserVars, documentVars, routes, kind>>

\* The user goes back or forward, whether or not the router is still
\* there: the browser moves to the entry and fires popstate. With onPop
\* registered, React renders the update it makes before the event is over.
Traverse(delta) ==
    /\ status \in {"mounted", "torndown", "crashed"}
    /\ ~UpdatePending
    /\ Len(loads) < MaxLoads
    /\ hidx + delta \in 1..Len(history)
    /\ hidx' = hidx + delta
    /\ history' = history
    /\ IF listeners > 0 /\ status = "mounted"
       THEN \E take \in TakeChoices : Render(ReadLocation(WindowLocation'), take)
       ELSE UNCHANGED instanceVars
    /\ click' = NoClick
    /\ UNCHANGED <<buildVars, documentVars, routes, kind>>

Back == Traverse(-1)
Forward == Traverse(1)

\* ------------------------------------------------------------------- Link
\* The caller's onClick prop: absent, one that leaves the event alone, one
\* that calls e.preventDefault().
OnClickProps == {Undefined, "keeps", "preventDefault"}

\* onClick?.(e)
CallOnClick(onClick, e) ==
    IF onClick = "preventDefault" THEN [e EXCEPT !.defaultPrevented = TRUE] ELSE e

\* Mutant: the alt key is not looked at.
LinkTakesOverIgnoringAlt(e) ==
    ~e.defaultPrevented /\ ~(e.metaKey \/ e.ctrlKey \/ e.shiftKey)

\* Neither of the handler's two early returns is taken.
LinkTakesOver(e) ==
    ~e.defaultPrevented /\ ~(e.metaKey \/ e.ctrlKey \/ e.shiftKey \/ e.altKey)

\* A click on a <Link to=...> rendered by the displayed page: the handler
\* runs the caller's onClick, then either returns or calls
\* e.preventDefault() and navigate(to); calls lists what it called. React
\* renders the update of loc before the click is over. The page may be one
\* that is still displayed while the load of the next one is under way.
\* The browser dispatches one click at a time.
LinkClick(to, onClick, ev) ==
    /\ click.kind # "click"
    /\ View = "page"
    /\ ~UpdatePending
    /\ Len(history) < MaxHistory
    /\ LET e == CallOnClick(onClick, ev) IN
       IF LinkTakesOver(e)
       THEN /\ click' = [kind |-> "click", to |-> to, afterOnClick |-> e,
                         event |-> [e EXCEPT !.defaultPrevented = TRUE],
                         calls |-> <<"preventDefault", "navigate">>]
            /\ \E url \in ParseURL(to) :
                  IF SameOrigin(url)
                  THEN /\ pushState(url)
                       /\ \E take \in TakeChoices : Render(ReadLocation(url), take)
                  ELSE UNCHANGED <<browserVars, instanceVars>>
       ELSE /\ click' = [kind |-> "click", to |-> to, afterOnClick |-> e, event |-> e,
                         calls |-> <<>>]
            /\ UNCHANGED <<browserVars, instanceVars>>
    /\ Len(loads') <= MaxLoads
    /\ UNCHANGED <<buildVars, documentVars, routes, kind>>

\* The handler has returned and the dispatch of the click is over.
ClickOver ==
    /\ click.kind = "click"
    /\ click' = NoClick
    /\ UNCHANGED <<buildVars, browserVars, documentVars, routes, kind, instanceVars>>

\* ------------------------------------------------------ imports settling
\* What no settling of an import changes.
settleFrame == <<buildVars, browserVars, routes, kind, status, rendered, subscribed, listeners,
                 loc, queuedLoc, match, loaded, loadError, effectFile>>

\* importPage() of attempt a of the layout-aware FileRouter resolves to
\* mod: metadata is applied, the layout name resolved, and the function
\* either suspends on the layout loader, throws, or runs to its end.
PageResolves(a, mod) ==
    /\ kind = "layouts"
    /\ ~UpdatePending
    /\ loads[a].pc = "page"
    /\ applyMetadata(mod.metadata)
    /\ pageMod' = IF a = CurrentLoad THEN mod ELSE pageMod
    /\ LET step == AfterPage(mod) IN
       CASE step.next = "awaitLayout" ->
               /\ loads' = [loads EXCEPT ![a].pc = "layout", ![a].page = mod.default,
                                         ![a].layoutName = step.name]
               /\ UNCHANGED <<queuedLoaded, queuedLoadError>>
         [] step.next = "throw" -> Thrown(a, step.error)
         [] OTHER -> Finish(a, mod.default, Undefined)
    /\ click' = NoClick
    /\ UNCHANGED settleFrame

\* importPage() of attempt a has rejected with reason, which the function
\* throws on at its await: the handler given to .catch runs with it.
PageRejects(a, reason) ==
    /\ kind = "layouts"
    /\ ~UpdatePending
    /\ loads[a].pc = "page"
    /\ Caught(a, reason)
    /\ click' = NoClick
    /\ UNCHANGED <<settleFrame, documentVars, pageMod>>

\* What attempt a awaited as its layout settles with a value: the module of
\* the layout's import, or what was no promise in the first place.
LayoutResolves(a) ==
    /\ ~UpdatePending
    /\ loads[a].pc = "layout"
    /\ Finish(a, loads[a].page, getDefaultExport(loads[a].layoutName))
    /\ click' = NoClick
    /\ UNCHANGED <<settleFrame, documentVars, pageMod>>

\* The import of the layout of attempt a has rejected with reason: the
\* handler given to .catch runs with it.
LayoutRejects(a, reason) ==
    /\ ~UpdatePending
    /\ loads[a].pc = "layout"
    /\ CallLoader(loads[a].layoutName) = ReturnsPromise
    /\ Caught(a, reason)
    /\ click' = NoClick
    /\ UNCHANGED <<settleFrame, documentVars, pageMod>>

\* The handler given to .catch runs with what the async function of
\* attempt a threw. It is a promise job: it may run before React renders an
\* update queued by a job before it, and after a cleanup that a job
\* before it has run.
CatchRuns(a) ==
    /\ loads[a].pc = "thrown"
    /\ Caught(a, loads[a].thrown)
    /\ click' = NoClick
    /\ UNCHANGED <<settleFrame, documentVars, pageMod>>

\* importPage() of the loader given to React.lazy resolves to mod: metadata
\* is applied and the module handed to React, whichever page the router has
\* gone on to.
LazyResolves(a, mod) ==
    /\ kind = "lazy"
    /\ ~UpdatePending
    /\ loads[a].pc = "page"
    /\ applyMetadata(mod.metadata)
    /\ pageMod' = IF a = CurrentLoad THEN mod ELSE pageMod
    /\ loads' = [loads EXCEPT ![a].pc = "done", ![a].page = mod.default,
                              ![a].outcome = "resolved"]
    /\ click' = NoClick
    /\ UNCHANGED <<settleFrame, queuedLoaded, queuedLoadError>>

\* importPage() of the loader given to React.lazy rejects.
LazyRejects(a) ==
    /\ kind = "lazy"
    /\ ~UpdatePending
    /\ loads[a].pc = "page"
    /\ loads' = [loads EXCEPT ![a].pc = "done", ![a].outcome = "rejected"]
    /\ click' = NoClick
    /\ UNCHANGED <<settleFrame, documentVars, pageMod, queuedLoaded, queuedLoadError>>

\* ------------------------------------------------- generator (generate.ts)
MaxFiles == 4

StartsWith(s, pre) == Len(s) >= Len(pre) /\ SubSeq(s, 1, Len(pre)) = pre
EndsWith(s, suf) == Len(s) >= Len(suf) /\ SubSeq(s, Len(s) - Len(suf) + 1, Len(s)) = suf

\* s.slice(0, -n)
DropLastN(s, n) == SubSeq(s, 1, Len(s) - n)

Tsx == <<".", "t", "s", "x">>
Index == <<"i", "n", "d", "e", "x">>

\* Mutant: only the first component of the path is looked at.
isIgnoredRouteFileFirstOnly(relPosix) ==
    StartsWith(SplitOnSlash(relPosix, 1, <<>>)[1], <<"_">>)

isIgnoredRouteFile(relPosix) ==
    LET parts == SplitOnSlash(relPosix, 1, <<>>)
    IN  \E k \in 1..Len(parts) : StartsWith(parts[k], <<"_">>)

parseSegment(seg) ==
    IF StartsWith(seg, <<"[", ".", ".", ".">>) /\ EndsWith(seg, <<"]">>)
    THEN CatchAll(SubSeq(seg, 5, Len(seg) - 1))
    ELSE IF StartsWith(seg, <<"[">>) /\ EndsWith(seg, <<"]">>)
    THEN Param(SubSeq(seg, 2, Len(seg) - 1))
    ELSE Static(seg)

\* urlPath.replace(/\/+$/g, '')
RECURSIVE StripTrailingSlashes(_)
StripTrailingSlashes(s) ==
    IF EndsWithSlash(s) THEN StripTrailingSlashes(DropLast(s)) ELSE s

fileToRoute(relPosixNoExt) ==
    LET p0 == IF relPosixNoExt = Index THEN <<>> ELSE relPosixNoExt
        p == IF EndsWith(p0, <<Slash>> \o Index) THEN DropLastN(p0, 6) ELSE p0
        urlPath == <<Slash>> \o p
        segs == IF p = <<>> THEN <<>> ELSE FilterBoolean(SplitOnSlash(p, 1, <<>>))
    IN  [path |-> IF urlPath = <<Slash>> THEN <<Slash>> ELSE StripTrailingSlashes(urlPath),
         segments |-> [k \in 1..Len(segs) |-> parseSegment(segs[k])]]

\* String.prototype.localeCompare with the default collator: punctuation
\* sorts before letters, letters alphabetically whatever their case, and
\* case (lower first) decides only between strings equal otherwise.
CollationOrder ==
    <<"_", ".", "[", "]", "/",
      "a", "b", "c", "d", "e", "f", "g", "h", "i", "j", "k", "l", "m",
      "n", "o", "p", "q", "r", "s", "t", "u", "v", "w", "x", "y", "z">>
Capitals ==
    <<"A", "B", "C", "D", "E", "F", "G", "H", "I", "J", "K", "L", "M",
      "N", "O", "P", "Q", "R", "S", "T", "U", "V", "W", "X", "Y", "Z">>

IsCapital(c) == \E k \in 1..Len(Capitals) : Capitals[k] = c
PrimaryWeight(c) ==
    IF IsCapital(c)
    THEN 5 + (CHOOSE k \in 1..Len(Capitals) : Capitals[k] = c)
    ELSE CHOOSE k \in 1..Len(CollationOrder) : CollationOrder[k] = c

RECURSIVE ComparePrimary(_, _, _)
ComparePrimary(a, b, k) ==
    IF k > Len(a) /\ k > Len(b) THEN 0
    ELSE IF k > Len(a) THEN -1
    ELSE IF k > Len(b) THEN 1
    ELSE IF PrimaryWeight(a[k]) < PrimaryWeight(b[k]) THEN -1
    ELSE IF PrimaryWeight(a[k]) > PrimaryWeight(b[k]) THEN 1
    ELSE ComparePrimary(a, b, k + 1)

RECURSIVE CompareCase(_, _, _)
CompareCase(a, b, k) ==
    IF k > Len(a) THEN 0
    ELSE IF IsCapital(a[k]) = IsCapital(b[k]) THEN CompareCase(a, b, k + 1)
    ELSE IF IsCapital(b[k]) THEN -1
    ELSE 1

localeCompare(a, b) ==
    IF ComparePrimary(a, b, 1) # 0 THEN ComparePrimary(a, b, 1) ELSE CompareCase(a, b, 1)

RouteRecord(file, path, segs) == [file |-> file, path |-> path, segments |-> segs]

\* routes.sort((a, b) => a.path.localeCompare(b.path)): the sort is stable,
\* so a record goes after every record that does not sort after it.
RECURSIVE InsertByPath(_, _, _)
InsertByPath(sorted, rec, k) ==
    IF k > Len(sorted) THEN Append(sorted, rec)
    ELSE IF localeCompare(sorted[k].path, rec.path) > 0
    THEN SubSeq(sorted, 1, k - 1) \o <<rec>> \o SubSeq(sorted, k, Len(sorted))
    ELSE InsertByPath(sorted, rec, k + 1)

RECURSIVE SortByPath(_, _)
SortByPath(recs, k) ==
    IF k = 0 THEN <<>>
    ELSE InsertByPath(SortByPath(recs, k - 1), recs[k], 1)

\* The loop of generateFsRoutes over the files walk() returned, in its order.
RECURSIVE CollectRoutes(_, _)
CollectRoutes(filesAbs, k) ==
    IF k > Len(filesAbs) THEN <<>>
    ELSE LET rel == filesAbs[k] IN
         IF ~EndsWith(rel, Tsx) \/ isIgnoredRouteFile(rel)
         THEN CollectRoutes(filesAbs, k + 1)
         ELSE LET r == fileToRoute(DropLastN(rel, 4))
              IN  <<RouteRecord(rel, r.path, r.segments)>> \o CollectRoutes(filesAbs, k + 1)

generateFsRoutes(filesAbs) ==
    LET recs == CollectRoutes(filesAbs, 1) IN SortByPath(recs, Len(recs))

NotGenerated == [done |-> FALSE, routes |-> <<>>]
GeneratorIdle == pagesDir = {} /\ table = NotGenerated /\ manifest = NotGenerated

\* What Bun.write leaves in routes.ts, and in manifest.json, for the routes
\* generateFsRoutes built.
Written(routeRecords) == [done |-> TRUE, routes |-> routeRecords]

\* walk(): the files of a directory tree, in the order readdir lists them.
RECURSIVE Listings(_)
Listings(S) ==
    IF S = {} THEN {<<>>}
    ELSE UNION {{<<f>> \o l : l \in Listings(S \ {f})} : f \in S}

\* One run of the generator over the pages directory, with nothing else
\* going on: both files are written from the same routes.
GenerateFsRoutes(filesAbs) ==
    /\ ~table.done
    /\ table' = Written(generateFsRoutes(filesAbs))
    /\ manifest' = table'
    /\ UNCHANGED <<pagesDir, matcherVars, browserVars, documentVars, routerVars, watchVars,
                   applied>>

\* ------------------------------------------------------------- watch mode
PagesRoot == "web/pages"
LayoutsRoot == "web/layouts"
BlogDir == "web/pages/b"
DirPool == {PagesRoot, BlogDir, LayoutsRoot}

\* The roots ensureWatched() walks, in the order of its loop: the version
\* with layouts walks both, the version with routes only walks web/pages.
Roots == IF variant = "layouts" THEN <<PagesRoot, LayoutsRoot>> ELSE <<PagesRoot>>

\* The directory a directory of the pool lies in, and its own name there.
ParentDir(d) == IF d = BlogDir THEN PagesRoot ELSE "web"
DirName(d) ==
    IF d = BlogDir THEN <<"b">>
    ELSE IF d = PagesRoot THEN <<"p", "a", "g", "e", "s">>
    ELSE <<"l", "a", "y", "o", "u", "t", "s">>

\* A directory and what lies below it.
Tree(d) == IF d = PagesRoot THEN {PagesRoot, BlogDir} ELSE {d}

\* The page files watch mode sees written and removed, relative to web/pages.
BlogPage == <<"b", "/", "u">> \o Tsx
WatchPages == {Index \o Tsx, BlogPage}
DirOfPage(rel) == IF StartsWith(rel, <<"b", "/">>) THEN BlogDir ELSE PagesRoot

\* What generateFsRoutes writes for each set of page files, over the orders
\* in which walk() may list them.
GeneratedRoutes ==
    UNION { { [files |-> S, routes |-> generateFsRoutes(filesAbs)] :
                filesAbs \in Listings(S) } : S \in SUBSET WatchPages }

\* path.basename: what follows the last slash.
RECURSIVE Basename(_)
Basename(rel) ==
    IF \E k \in 1..Len(rel) : rel[k] = Slash
    THEN Basename(Tail(rel))
    ELSE rel

\* A consistent tree: a directory lies in an existing one, a file too.
ConsistentTree(ds, files) ==
    /\ \A d \in ds : ParentDir(d) \in ds \cup {"web"}
    /\ \A f \in files : DirOfPage(f) \in ds

\* The filename argument of a watch callback: a string, or null.
FileName(s) == [named |-> TRUE, name |-> s]
NoFileName == [named |-> FALSE, name |-> <<>>]
Readme == <<"n", "o", "t", "e", "s", ".", "m", "d">>

NoTimer == [armed |-> FALSE, rescanDirs |-> FALSE]
Timer(rescanDirs) == [armed |-> TRUE, rescanDirs |-> rescanDirs]
RegenIdle == [pc |-> "idle", rescanDirs |-> FALSE]

\* The locals of a call of ensureWatched() or of generateFsRoutes() that is
\* suspended at an await: what it awaits (a readdir, which then is listed
\* or has failed with ENOENT; the mkdir; the write of one of the two
\* files), the directory of the readdir, the directories it has still to
\* enter, the roots its loop has still to walk, its seen set, the files it
\* has collected and the routes it has built.
NoFrame ==
    [dir |-> "none", awaits |-> "none", todo |-> <<>>, roots |-> <<>>, seen |-> {},
     files |-> {}, routes |-> <<>>]
NoFrames == [startup |-> NoFrame, regen |-> NoFrame]

WatchIdle ==
    /\ dirs = {}
    /\ changes = 0
    /\ watchers = {}
    /\ live = {}
    /\ frames = NoFrames
    /\ scheduled = NoTimer
    /\ running = FALSE
    /\ needsRerun = FALSE
    /\ regen = RegenIdle
    /\ startup = "off"
    /\ rescanOwed = FALSE
    /\ regenOwed = FALSE
    /\ variant = "layouts"

\* schedule(rescanDirs): the pending timer, if any, is cleared and a new one
\* is set whose callback closes over this rescanDirs.
schedule(rescanDirs) == scheduled' = Timer(rescanDirs)

\* The callback given to watch().
WatchCallback(filename) ==
    /\ regenOwed' = TRUE
    /\ IF filename.named /\ ~EndsWith(filename.name, Tsx)
       THEN schedule(TRUE) /\ rescanOwed' = TRUE
       ELSE schedule(FALSE) /\ UNCHANGED rescanOwed

\* The watcher the map holds under d delivers events: it was made by
\* watch(d) for the directory that exists at d now. A watcher whose
\* directory was removed stays in the map and is silent, also when a new
\* directory is made at its path.
Watching(d) == d \in watchers /\ d \in live

\* A change under the name filename reported by the watchers of the
\* directories ds: when one of them delivers, the callback runs.
NotifyIn(ds, filename) ==
    /\ changes' = changes + 1
    /\ IF \E d \in ds : Watching(d)
       THEN WatchCallback(filename) /\ UNCHANGED <<running, needsRerun, regen>>
       ELSE UNCHANGED <<schedulerVars, rescanOwed, regenOwed>>

\* readdir(d) has been called and its promise is pending.
Readdir(frame, d) == [frame EXCEPT !.dir = d, !.awaits = "readdir"]

\* A call of ensureWatched() as far as it runs without waiting: it is
\* suspended at the readdir of frame.dir, or it has returned, or thrown.
Awaiting(ws, lv, frame) ==
    [watchers |-> ws, live |-> lv, frame |-> frame, outcome |-> "awaiting"]
Resolved(ws, lv) ==
    [watchers |-> ws, live |-> lv, frame |-> NoFrame, outcome |-> "resolved"]
Rejected(ws, lv) ==
    [watchers |-> ws, live |-> lv, frame |-> NoFrame, outcome |-> "rejected"]

RECURSIVE walkDirs(_, _, _, _), WalkDirsThrows(_, _, _), NextRoot(_, _, _)

\* walkDirs(dirAbs) up to its await: the directory is marked seen, gets a
\* watcher unless the map has its key (watch() throws when the directory
\* does not exist), and its readdir is started.
walkDirs(ws, lv, frame, d) ==
    LET marked == [frame EXCEPT !.seen = @ \cup {d}]
    IN  IF d \in ws THEN Awaiting(ws, lv, Readdir(marked, d))
        ELSE IF d \in dirs THEN Awaiting(ws \cup {d}, lv \cup {d}, Readdir(marked, d))
        ELSE WalkDirsThrows(ws, lv, marked)

\* watch() or readdir() threw below a root: the version with layouts
\* catches it in the loop over the roots and goes on with the next root, the
\* version with routes only has no try and ensureWatched() rejects.
WalkDirsThrows(ws, lv, frame) ==
    IF variant = "layouts"
    THEN NextRoot(ws, lv, [frame EXCEPT !.todo = <<>>])
    ELSE Rejected(ws, lv)

\* The walk of a root is over: the next root is walked, and after the last
\* one the watchers of directories that were not seen are closed and
\* deleted.
NextRoot(ws, lv, frame) ==
    IF frame.roots = <<>>
    THEN Resolved(ws \cap frame.seen, lv \cap frame.seen)
    ELSE walkDirs(ws, lv, [frame EXCEPT !.roots = Tail(@)], Head(frame.roots))

\* ensureWatched() up to its first await.
ensureWatched(ws, lv) == NextRoot(ws, lv, [NoFrame EXCEPT !.roots = Roots])

\* walkDirs goes on after its readdir has settled: it throws, or enters the
\* listed subdirectories one after the other, as the tree is by then.
AfterReaddir(ws, lv, frame) ==
    IF frame.awaits = "ENOENT" THEN WalkDirsThrows(ws, lv, frame)
    ELSE IF frame.todo = <<>> THEN NextRoot(ws, lv, frame)
    ELSE walkDirs(ws, lv, [frame EXCEPT !.todo = Tail(@)], Head(frame.todo))

\* The entries of a directory: its subdirectories and its files.
SubDirs(d) == {c \in dirs : ParentDir(c) = d}
FilesIn(d) == {f \in pagesDir : DirOfPage(f) = d}

\* The readdir a frame awaits settles with the entries the directory has at
\* that moment, in any order, or with ENOENT. The subdirectories it lists
\* are entered before the directories that were left to enter.
ReaddirSettles(frame, order) ==
    IF frame.dir \in dirs
    THEN [frame EXCEPT !.awaits = "listed", !.todo = order \o @]
    ELSE [frame EXCEPT !.awaits = "ENOENT"]

\* The same in walk(), which also collects the files the directory holds.
WalkSettles(frame, order) ==
    IF frame.dir \in dirs
    THEN [ReaddirSettles(frame, order) EXCEPT !.files = @ \cup FilesIn(frame.dir)]
    ELSE ReaddirSettles(frame, order)

\* generateFsRoutes() up to its first await: walk(pagesDirAbs) starts the
\* readdir of web/pages.
walk == Readdir(NoFrame, PagesRoot)

\* walk() after a readdir has settled: the listed subdirectories are walked
\* one after the other; after the last one generateFsRoutes builds the
\* routes (routeRecords, of the collected files) and calls mkdir.
AfterWalk(frame, routeRecords) ==
    IF frame.todo = <<>>
    THEN [NoFrame EXCEPT !.awaits = "mkdir", !.routes = routeRecords]
    ELSE Readdir([frame EXCEPT !.todo = Tail(@)], Head(frame.todo))

\* Bun.write(file, ...) has been called and its promise is pending.
BunWrite(frame, file) == [frame EXCEPT !.awaits = file]
RoutesTs == "routes.ts"
ManifestJson == "manifest.json"

\* The process is gone: the top-level await rejected, or shutdown() ran.
Gone == startup \in {"exited", "shutdown"}

\* The process ends, with its watchers, timers and callbacks: "exited"
\* after an unhandled rejection, "shutdown" after process.exit(0).
ProcessExits(how) ==
    /\ startup' = how
    /\ watchers' = {}
    /\ live' = {}
    /\ frames' = NoFrames
    /\ scheduled' = NoTimer
    /\ running' = FALSE
    /\ needsRerun' = FALSE
    /\ regen' = RegenIdle

\* Mutant: the finally block forgets the rerun that was asked for.
FinallyWithoutRerun ==
    /\ running' = FALSE
    /\ regen' = RegenIdle
    /\ needsRerun' = FALSE
    /\ UNCHANGED scheduled

\* The finally block of the timer callback.
Finally ==
    /\ running' = FALSE
    /\ regen' = RegenIdle
    /\ IF needsRerun
       THEN needsRerun' = FALSE /\ schedule(regen.rescanDirs)
       ELSE UNCHANGED <<needsRerun, scheduled>>

\* The body of watchPagesAndRegenerate goes on after its ensureWatched():
\* the call is suspended, or it returned and generateFsRoutes() is called,
\* or it threw and the top-level await rejects.
StartupEnsured(m) ==
    IF m.outcome = "rejected"
    THEN ProcessExits("exited")
    ELSE /\ watchers' = m.watchers
         /\ live' = m.live
         /\ IF m.outcome = "awaiting"
            THEN /\ startup' = "ensureWatched"
                 /\ frames' = [frames EXCEPT !.startup = m.frame]
            ELSE /\ startup' = "generateFsRoutes"
                 /\ frames' = [frames EXCEPT !.startup = walk]
         /\ UNCHANGED schedulerVars

\* watchPagesAndRegenerate() is called and runs up to its first await.
WatchPagesAndRegenerate ==
    /\ startup = "start"
    /\ \E m \in {ensureWatched(watchers, live)} : StartupEnsured(m)
    /\ UNCHANGED <<dirs, changes, rescanOwed, regenOwed, generatorVars, matcherVars, browserVars,
                   documentVars, routerVars, applied, variant>>

\* The initial ensureWatched(): the readdir it awaits settles, or it goes
\* on with what that readdir gave.
StartupEnsureWatched ==
    /\ startup = "ensureWatched"
    /\ IF frames.startup.awaits = "readdir"
       THEN /\ \E order \in Listings(SubDirs(frames.startup.dir)) :
                  frames' = [frames EXCEPT !.startup = ReaddirSettles(@, order)]
            /\ UNCHANGED <<watchers, live, schedulerVars, startup>>
       ELSE \E m \in {AfterReaddir(watchers, live, frames.startup)} : StartupEnsured(m)
    /\ UNCHANGED <<dirs, changes, rescanOwed, regenOwed, generatorVars, matcherVars, browserVars,
                   documentVars, routerVars, applied, variant>>

\* generateFsRoutes() goes on after the await its frame is at has settled:
\* a readdir of its walk (it throws when the directory is gone), the mkdir,
\* the write of routes.ts, the write of manifest.json, after which it
\* returns. The result tells what becomes of the frame and of the two files.
Suspended(frame) == [outcome |-> "awaiting", frame |-> frame, table |-> table,
                     manifest |-> manifest]
Threw == [outcome |-> "rejected", frame |-> NoFrame, table |-> table, manifest |-> manifest]
Returned(frame) == [outcome |-> "resolved", frame |-> NoFrame, table |-> table,
                    manifest |-> Written(frame.routes)]

GenerateGoesOn(frame, order, routeRecords) ==
    CASE frame.awaits = "readdir" ->
            IF WalkSettles(frame, order).awaits = "ENOENT" THEN Threw
            ELSE Suspended(AfterWalk(WalkSettles(frame, order), routeRecords))
      [] frame.awaits = "mkdir" -> Suspended(BunWrite(frame, RoutesTs))
      [] frame.awaits = RoutesTs ->
            [Suspended(BunWrite(frame, ManifestJson)) EXCEPT !.table = Written(frame.routes)]
      [] OTHER -> Returned(frame)

\* The ways the call with this frame can go on: the order in which a readdir
\* lists, and the routes built of the files the walk has collected when it
\* ends.
GenerateSteps(frame) ==
    IF frame.awaits = "readdir"
    THEN { GenerateGoesOn(frame, order, g.routes) :
              order \in Listings(SubDirs(frame.dir)),
              g \in {h \in GeneratedRoutes : h.files = WalkSettles(frame, <<>>).files} }
    ELSE { GenerateGoesOn(frame, <<>>, <<>>) }

\* The initial generateFsRoutes() goes on. When it throws, the top-level
\* await rejects and the process ends, with its watchers and timers.
StartupGenerateFsRoutes ==
    /\ startup = "generateFsRoutes"
    /\ \E m \in GenerateSteps(frames.startup) :
          IF m.outcome = "rejected"
          THEN ProcessExits("exited") /\ UNCHANGED <<table, manifest>>
          ELSE /\ table' = m.table
               /\ manifest' = m.manifest
               /\ frames' = [frames EXCEPT !.startup = m.frame]
               /\ startup' = (IF m.outcome = "awaiting" THEN startup
                              ELSE IF variant = "layouts" THEN "generateLayouts"
                              ELSE "watching")
               /\ UNCHANGED <<watchers, live, schedulerVars>>
    /\ UNCHANGED <<dirs, changes, rescanOwed, regenOwed, pagesDir, matcherVars, browserVars, documentVars,
                   routerVars, applied, variant>>

\* The initial generateLayouts() completes: the handlers of SIGINT and
\* SIGTERM are registered and the process goes on watching. The layouts
\* file it writes is not part of the state.
StartupGenerateLayouts ==
    /\ startup = "generateLayouts"
    /\ startup' = "watching"
    /\ UNCHANGED <<dirs, changes, watchers, live, frames, schedulerVars, rescanOwed, regenOwed,
                   generatorVars, matcherVars, browserVars, documentVars, routerVars,
                   applied, variant>>

\* The timer callback goes on after its ensureWatched(): the call is
\* suspended, or it returned and generateFsRoutes() is called, or it threw
\* and the catch and finally blocks run.
RegenEnsured(m) ==
    /\ watchers' = m.watchers
    /\ live' = m.live
    /\ IF m.outcome = "rejected"
       THEN Finally /\ frames' = [frames EXCEPT !.regen = NoFrame]
       ELSE /\ IF m.outcome = "awaiting"
               THEN /\ regen' = [regen EXCEPT !.pc = "ensureWatched"]
                    /\ frames' = [frames EXCEPT !.regen = m.frame]
               ELSE /\ regen' = [regen EXCEPT !.pc = "generateFsRoutes"]
                    /\ frames' = [frames EXCEPT !.regen = walk]
            /\ UNCHANGED <<scheduled, running, needsRerun>>

\* The debounce timer fires: the callback up to its first await.
TimerFires ==
    /\ ~Gone
    /\ scheduled.armed
    /\ scheduled' = NoTimer
    /\ IF running
       THEN /\ needsRerun' = TRUE
            /\ UNCHANGED <<running, regen, rescanOwed, regenOwed, watchers, live, frames>>
       ELSE /\ rescanOwed' = (IF scheduled.rescanDirs THEN FALSE ELSE rescanOwed)
            /\ regenOwed' = FALSE
            /\ UNCHANGED needsRerun
            /\ IF scheduled.rescanDirs
               THEN \E m \in {ensureWatched(watchers, live)} :
                        /\ watchers' = m.watchers
                        /\ live' = m.live
                        /\ IF m.outcome = "rejected"
                           THEN /\ running' = FALSE
                                /\ regen' = RegenIdle
                                /\ UNCHANGED frames
                           ELSE /\ running' = TRUE
                                /\ regen' = [pc |-> IF m.outcome = "awaiting"
                                                    THEN "ensureWatched"
                                                    ELSE "generateFsRoutes",
                                             rescanDirs |-> TRUE]
                                /\ frames' = [frames EXCEPT !.regen =
                                                IF m.outcome = "awaiting" THEN m.frame
                                                ELSE walk]
               ELSE /\ running' = TRUE
                    /\ regen' = [pc |-> "generateFsRoutes", rescanDirs |-> FALSE]
                    /\ frames' = [frames EXCEPT !.regen = walk]
                    /\ UNCHANGED <<watchers, live>>
    /\ UNCHANGED <<dirs, changes, startup, generatorVars, matcherVars, browserVars,
                   documentVars, routerVars, applied, variant>>

\* await ensureWatched() of the timer callback: the readdir it awaits
\* settles, or it goes on with what that readdir gave.
RegenEnsureWatched ==
    /\ regen.pc = "ensureWatched"
    /\ IF frames.regen.awaits = "readdir"
       THEN /\ \E order \in Listings(SubDirs(frames.regen.dir)) :
                  frames' = [frames EXCEPT !.regen = ReaddirSettles(@, order)]
            /\ UNCHANGED <<watchers, live, schedulerVars>>
       ELSE \E m \in {AfterReaddir(watchers, live, frames.regen)} : RegenEnsured(m)
    /\ UNCHANGED <<dirs, changes, startup, rescanOwed, regenOwed, generatorVars,
                   matcherVars, browserVars, documentVars, routerVars, applied, variant>>

\* await generateFsRoutes() of the timer callback goes on. When it throws,
\* the catch and finally blocks run; when it returns, generateLayouts() is
\* called (the version with routes only runs the finally block).
RegenGenerateFsRoutes ==
    /\ regen.pc = "generateFsRoutes"
    /\ \E m \in GenerateSteps(frames.regen) :
          /\ table' = m.table
          /\ manifest' = m.manifest
          /\ frames' = [frames EXCEPT !.regen = m.frame]
          /\ IF m.outcome = "awaiting" THEN UNCHANGED schedulerVars
             ELSE IF m.outcome = "resolved" /\ variant = "layouts"
             THEN /\ regen' = [regen EXCEPT !.pc = "generateLayouts"]
                  /\ UNCHANGED <<scheduled, running, needsRerun>>
             ELSE Finally
    /\ UNCHANGED <<dirs, changes, watchers, live, startup, rescanOwed, regenOwed, pagesDir, matcherVars,
                   browserVars, documentVars, routerVars, applied, variant>>

\* await generateLayouts() of the timer callback completes, and the finally
\* block runs. The layouts file it writes is not part of the state.
RegenGenerateLayouts ==
    /\ regen.pc = "generateLayouts"
    /\ Finally
    /\ UNCHANGED <<dirs, changes, watchers, live, frames, startup, rescanOwed, regenOwed,
                   generatorVars, matcherVars, browserVars, documentVars, routerVars,
                   applied, variant>>

\* SIGINT or SIGTERM, once their handlers are registered: shutdown() closes
\* every watcher and exits with code 0.
Shutdown ==
    /\ startup = "watching"
    /\ ProcessExits("shutdown")
    /\ UNCHANGED <<dirs, changes, rescanOwed, regenOwed, generatorVars, matcherVars, browserVars,
                   documentVars, routerVars, applied, variant>>

\* The developer's changes to the tree. A change in a directory is reported
\* by the watcher of that directory; the removal of a directory is reported
\* by the watcher of its parent and by its own, under its own name.
MkDir(d) ==
    /\ changes < MaxChanges
    /\ d \notin dirs
    /\ ParentDir(d) \in dirs \cup {"web"}
    /\ dirs' = dirs \cup {d}
    /\ NotifyIn({ParentDir(d)}, FileName(DirName(d)))
    /\ UNCHANGED <<watchers, live, frames, startup, generatorVars, matcherVars, browserVars,
                   documentVars, routerVars, applied, variant>>

\* rm -r d: what lies in d goes first and d last, so the last report is the
\* one of d's removal; the watchers of the removed directories fall silent
\* and stay in the map.
RmDir(d) ==
    /\ changes < MaxChanges
    /\ d \in dirs
    /\ dirs' = dirs \ Tree(d)
    /\ pagesDir' = {f \in pagesDir : DirOfPage(f) \notin Tree(d)}
    /\ live' = live \ Tree(d)
    /\ NotifyIn(Tree(d) \cup {ParentDir(d)}, FileName(DirName(d)))
    /\ UNCHANGED <<watchers, frames, startup, table, manifest, matcherVars, browserVars,
                   documentVars, routerVars, applied, variant>>

WritePage(rel) ==
    /\ changes < MaxChanges
    /\ DirOfPage(rel) \in dirs
    /\ pagesDir' = pagesDir \cup {rel}
    /\ NotifyIn({DirOfPage(rel)}, FileName(Basename(rel)))
    /\ UNCHANGED <<dirs, watchers, live, frames, startup, table, manifest, matcherVars,
                   browserVars, documentVars, routerVars, applied, variant>>

RemovePage(rel) ==
    /\ changes < MaxChanges
    /\ rel \in pagesDir
    /\ pagesDir' = pagesDir \ {rel}
    /\ NotifyIn({DirOfPage(rel)}, FileName(Basename(rel)))
    /\ UNCHANGED <<dirs, watchers, live, frames, startup, table, manifest, matcherVars,
                   browserVars, documentVars, routerVars, applied, variant>>

\* A file that is no page is written in a watched directory.
WriteOther(d) ==
    /\ changes < MaxChanges
    /\ Watching(d)
    /\ NotifyIn({d}, FileName(Readme))
    /\ UNCHANGED <<dirs, watchers, live, frames, startup, generatorVars, matcherVars,
                   browserVars, documentVars, routerVars, applied, variant>>

\* A watcher calls back without a filename, as fs.watch may.
UnnamedEvent(d) ==
    /\ changes < MaxChanges
    /\ Watching(d)
    /\ NotifyIn({d}, NoFileName)
    /\ UNCHANGED <<dirs, watchers, live, frames, startup, generatorVars, matcherVars,
                   browserVars, documentVars, routerVars, applied, variant>>

\* -------------------------------------------------------- the modelled site
\* Route tables as the generator emits them (sorted by path).
TableOrder ==
    << Route("u/[id].tsx", <<Static(<<"u">>), Param(Id)>>),
       Route("u/U.tsx", <<Static(<<"u">>), Static(<<"U">>)>>) >>

TableSite ==
    << Route("index.tsx", <<>>),
       Route("u.tsx", <<Static(<<"u">>)>>),
       Route("U/[...rest].tsx", <<Static(<<"U">>), CatchAll(Rest)>>) >>

RouteTables == {TableOrder, TableSite}

\* The two FileRouter components of the repository: the one with layouts
\* and a load effect, and the one that renders a React.lazy page.
RouterKinds == {"layouts", "lazy"}

\* Destinations given to navigate(); the last one names a host.
Destinations ==
    { <<"/">>,
      <<"/", "u", "/", "U">>,
      <<"/", "u", "/", "2", "?", "q">>,
      <<"/", "u", "/", "%">>,
      <<"/", "/", "u">> }

\* The URLs the document is opened at: the root, a pathname with trailing
\* slashes, one with a query, one with a malformed escape, and one under
\* the catch-all route of the site.
OpeningURLs ==
    {LocalURL(to) : to \in { <<"/">>,
                             <<"/", "u", "/", "/">>,
                             <<"/", "u", "/", "2", "?", "q">>,
                             <<"/", "u", "/", "%">>,
                             <<"/", "U", "/", "u">> }}

\* The modules the lazy FileRouter can be given for a file: it reads
\* nothing but their default and metadata exports.
LazyModules(file) == {mod \in PageModules(file) : mod.layout = SelAbsent}

\* Nothing is mounted.
NoInstance ==
    /\ status = "unmounted"
    /\ rendered = "none"
    /\ subscribed = FALSE
    /\ listeners = 0
    /\ loc = NoLoc
    /\ queuedLoc = NoLoc
    /\ match = NoRoute
    /\ loaded = LoadedNull
    /\ loadError = ErrorNull
    /\ queuedLoaded = LoadedNoUpdate
    /\ queuedLoadError = ErrorNoUpdate
    /\ effectFile = NoFile
    /\ loads = <<>>
    /\ pageMod = NoModule
    /\ click = NoClick

Init ==
    /\ segments = <<>>
    /\ pathname = <<>>
    /\ result = Unset
    /\ resultSlash = Unset
    /\ resultTrunc = Unset
    /\ routes \in RouteTables
    /\ kind \in RouterKinds
    /\ \E url \in OpeningURLs : history = <<url>>
    /\ hidx = 1
    /\ NoInstance
    /\ docTitle = ""
    /\ descTags = <<>>
    /\ applied = <<>>
    /\ GeneratorIdle
    /\ WatchIdle

\* An import some attempt awaits resolves or rejects.
ImportSettles ==
    \E a \in 1..Len(loads) :
        \/ \E mod \in PageModules(loads[a].file) : PageResolves(a, mod)
        \/ \E reason \in PageRejections(loads[a].file) : PageRejects(a, reason)
        \/ LayoutResolves(a)
        \/ \E reason \in LayoutRejections(loads[a].layoutName) : LayoutRejects(a, reason)
        \/ \E mod \in LazyModules(loads[a].file) : LazyResolves(a, mod)
        \/ LazyRejects(a)

\* The handler given to .catch runs for some attempt whose function threw.
HandlerRuns == \E a \in 1..Len(loads) : CatchRuns(a)

\* The router from its first render to its last: the navigations are those
\* made while it is mounted. What the browser and the callers of navigate do
\* once it is gone is followed under SpecTeardown.
Next ==
    \/ Mount
    \/ FlushEffects
    \/ \E to \in Destinations : status = "mounted" /\ Navigate(to)
    \/ RenderUpdate
    \/ RenderDeferred
    \/ Cleanup
    \/ status = "mounted" /\ Back
    \/ status = "mounted" /\ Forward
    \/ \E a \in 1..Len(loads) : \E mod \in PageModules(loads[a].file) : PageResolves(a, mod)
    \/ \E a \in 1..Len(loads) : \E reason \in PageRejections(loads[a].file) : PageRejects(a, reason)
    \/ \E a \in 1..Len(loads) : LayoutResolves(a)
    \/ \E a \in 1..Len(loads) : \E reason \in LayoutRejections(loads[a].layoutName) :
          LayoutRejects(a, reason)
    \/ \E a \in 1..Len(loads) : \E mod \in LazyModules(loads[a].file) : LazyResolves(a, mod)
    \/ \E a \in 1..Len(loads) : LazyRejects(a)
    \/ HandlerRuns

Spec == Init /\ [][Next]_vars

\* ------------------------------------------ a site whose imports all settle
\* React renders every queued update, runs the passive effects of every
\* commit and the cleanups a crash has left, and no import hangs.
SpecSettle ==
    /\ Init
    /\ [][Next]_vars
    /\ WF_vars(RenderUpdate)
    /\ WF_vars(RenderDeferred)
    /\ WF_vars(FlushEffects)
    /\ WF_vars(Cleanup)
    /\ WF_vars(ImportSettles)
    /\ WF_vars(HandlerRuns)

\* ------------------------------------------- a site whose host unmounts it
InitTeardown ==
    /\ Init
    /\ routes = TableSite
    /\ history[1] \in {LocalURL(<<"/">>), LocalURL(<<"/", "U", "/", "u">>)}

\* The host may unmount the router at any time, and once the router is
\* gone (unmounted, or crashed) the user still goes back and forward and
\* what kept the navigate function still calls it.
NextTeardown ==
    \/ Next
    \/ Unmount
    \/ \E to \in Destinations : status # "mounted" /\ Navigate(to)
    \/ status # "mounted" /\ Back
    \/ status # "mounted" /\ Forward

SpecTeardown == InitTeardown /\ [][NextTeardown]_vars

\* ------------------------------------------------------- a site with Links
\* Click events: no modifier key or one of the four; the default action may
\* already have been prevented by a handler on an element inside the anchor.
Modifiers == {"none", "meta", "ctrl", "shift", "alt"}
ClickEvent(prevented, key) ==
    [defaultPrevented |-> prevented, metaKey |-> key = "meta", ctrlKey |-> key = "ctrl",
     shiftKey |-> key = "shift", altKey |-> key = "alt"]
ClickEvents == {ClickEvent(p, k) : p \in BOOLEAN, k \in Modifiers}

\* The `to` props of the Links on the pages.
LinkTargets == { <<"/">>, <<"/", "U", "/", "u">>, <<"/", "/", "u">> }

InitLink ==
    /\ Init
    /\ routes = TableSite
    /\ history = <<LocalURL(<<"/">>)>>

NextLink ==
    \/ Mount
    \/ FlushEffects
    \/ \E to \in LinkTargets, onClick \in OnClickProps, ev \in ClickEvents :
          LinkClick(to, onClick, ev)
    \/ ClickOver
    \/ RenderDeferred
    \/ Cleanup
    \/ Back
    \/ Forward
    \/ \E a \in 1..Len(loads) : \E mod \in PageModules(loads[a].file) : PageResolves(a, mod)
    \/ \E a \in 1..Len(loads) : \E reason \in PageRejections(loads[a].file) : PageRejects(a, reason)
    \/ \E a \in 1..Len(loads) : LayoutResolves(a)
    \/ \E a \in 1..Len(loads) : \E reason \in LayoutRejections(loads[a].layoutName) :
          LayoutRejects(a, reason)
    \/ \E a \in 1..Len(loads) : \E mod \in LazyModules(loads[a].file) : LazyResolves(a, mod)
    \/ \E a \in 1..Len(loads) : LazyRejects(a)
    \/ HandlerRuns

SpecLink == InitLink /\ [][NextLink]_vars

\* ------------------------------------------------- claims on FileRouter
\* The current attempt's importPage() has resolved to a module.
PageModuleSeen == CurrentLoad > 0 /\ pageMod # NoModule

\* A step in which the mounted router renders with a new location: the
\* browser's current entry was changed by navigate, back or forward.
IsNavigation == status = "mounted" /\ loc' # loc

\* Attempt a settles in this step.
Settles(a) == a <= Len(loads) /\ loads[a].pc # "done" /\ loads'[a].pc = "done"

\* In this step an attempt calls setLoaded with a page or setLoadError with
\* an error, and React takes the call.
Commits ==
    \/ queuedLoaded' # queuedLoaded /\ queuedLoaded' \notin {LoadedNoUpdate, LoadedNull}
    \/ queuedLoadError' # queuedLoadError /\ queuedLoadError' \notin {ErrorNoUpdate, ErrorNull}

\* C1: a load attempt superseded by a later route-file change never commits:
\* when it settles, whether it resolves or rejects and whether before or
\* after the newer attempt, the loaded and loadError states and what is
\* queued for them stay as they are; every call of setLoaded or
\* setLoadError React takes is made by the attempt of the most recent
\* route-file change, for the file of the current match; and a page or an
\* error a render puts on display is the one of the attempt that was the
\* most recent when the render began. The same holds of the lazy pages of
\* the FileRouter built on React.lazy.
C1_StaleLoadNeverCommits ==
    [][ /\ \A a \in 1..Len(loads) :
              (Settles(a) /\ (loads[a].cancelled \/ a # CurrentLoad)) =>
                  /\ UNCHANGED <<loaded, loadError, queuedLoaded, queuedLoadError>>
                  /\ kind = "layouts" => loads'[a].outcome = "ignored"
        /\ Commits =>
              /\ status = "mounted"
              /\ CurrentLoad > 0
              /\ Settles(CurrentLoad)
              /\ ~loads[CurrentLoad].cancelled
              /\ loads[CurrentLoad].file = CurrentMatch.route.file
        /\ (loaded' # loaded /\ loaded' # LoadedNull) =>
              /\ CurrentLoad > 0
              /\ loads[CurrentLoad].pc = "done"
              /\ ~loads[CurrentLoad].cancelled
              /\ loaded'.Page = loads[CurrentLoad].file
        /\ (loadError' # loadError /\ loadError' # ErrorNull) =>
              /\ CurrentLoad > 0
              /\ loads[CurrentLoad].outcome = "setLoadError"
        /\ kind = "layouts" => \A a \in 1..(Len(loads') - 1) : loads'[a].cancelled
      ]_vars

\* Two navigations in a row: the first attempt settled after it was
\* superseded and was ignored, the second committed its own page, which is
\* displayed.
C1_Witness ==
    /\ status = "mounted"
    /\ Len(loads) = 2
    /\ loads[1].outcome = "ignored"
    /\ loads[2].outcome = "setLoaded"
    /\ loads[1].file # loads[2].file
    /\ loaded.Page = loads[2].file

\* The position of the first route of the table whose segments match path
\* (0 when none does).
RouteMatches(k, path) == matchRoute(routes[k].segments, path).kind = "params"
FirstMatching(path) ==
    IF \E k \in 1..Len(routes) : RouteMatches(k, path)
    THEN CHOOSE k \in 1..Len(routes) :
            RouteMatches(k, path) /\ \A j \in 1..(k - 1) : ~RouteMatches(j, path)
    ELSE 0

SomeRouteThrows(path) ==
    \E k \in 1..Len(routes) : matchRoute(routes[k].segments, path) = URIError

\* FileRouter has rendered with the pathname the browser is at: the render
\* is committed, or React's hook-order check threw it away.
RenderedHere ==
    \/ status = "mounted" /\ loc = ReadLocation(WindowLocation)
    \/ status = "crashed" /\ rendered = "hooks"

\* C2: for the pathname the browser is at (none of whose parts makes a
\* matcher throw), once FileRouter has rendered with it, the route it
\* selects is the first route in table order whose segments match, and when
\* no route matches the not-found view is shown. (No URL the browser has
\* been at makes a matcher throw.)
C2_FirstMatchElseNotFound ==
    LET path == normalizePathname(WindowLocation.pathname) IN
    ( /\ RenderedHere
      /\ ~UpdatePending
      /\ \A k \in 1..Len(history) :
             ~SomeRouteThrows(normalizePathname(history[k].pathname)) ) =>
        IF FirstMatching(path) = 0
        THEN View = "notFound"
        ELSE /\ View \in {"loading", "error", "page"}
             /\ CurrentMatch.kind = "route"
             /\ CurrentMatch.index = FirstMatching(path)

\* C6: while the router is mounted, the Location's pathname is non-empty and
\* does not end with a slash unless it is exactly "/".
C6_LocationPathnameNormalized ==
    status = "mounted" =>
        /\ loc.pathname # <<>>
        /\ EndsWithSlash(loc.pathname) => loc.pathname = <<Slash>>

\* The page module of the route matched after this step is known to load:
\* it is another file's (nothing is known against it), or it is the current
\* file's and the current attempt imported it with its default export (and
\* with a layout selector that names no inherited method, see C10).
TargetPageLoads ==
    CurrentMatch'.route.file = effectFile =>
        /\ PageModuleSeen
        /\ pageMod.default # Undefined
        /\ resolveLayoutName(pageMod.layout) \notin InheritedMethods

\* C7: when the router shows the error of a load and renders a navigation
\* to a pathname that matches a route whose page module loads, the load
\* effect runs: it starts a load attempt and asks for the error to be
\* cleared, so that loading and then the page replace the failure view.
C7_NavigationClearsError ==
    [][ ( /\ kind = "layouts"
          /\ IsNavigation
          /\ Truthy(loadError)
          /\ status' = "mounted"
          /\ rendered' = "route"
          /\ TargetPageLoads )
        => ( /\ Len(loads') = Len(loads) + 1
             /\ NextLoadError' = ErrorNull ) ]_vars

\* C8: whenever a loaded page is displayed, it is the page module of the
\* currently matched route file.
C8_DisplayedPageIsOfMatchedFile ==
    View = "page" => loaded.Page = CurrentMatch.route.file

\* The module the current attempt of the mounted layout-aware router
\* imported has no default export. (Selectors that name an inherited method
\* are left to C10.)
MissingDefaultSeen ==
    /\ kind = "layouts"
    /\ status = "mounted"
    /\ PageModuleSeen
    /\ pageMod.default = Undefined
    /\ resolveLayoutName(pageMod.layout) \notin InheritedMethods

\* C9 as stated: if the module resolved for the current attempt has no
\* default export, the router never enters the loaded state for that
\* attempt, and the attempt ends by setting the error state to the error
\* that names the route's file.
C9_AsStated ==
    MissingDefaultSeen =>
        LET load == loads[CurrentLoad] IN
        /\ NextLoaded = LoadedNull
        /\ load.pc = "done" =>
              /\ load.outcome = "setLoadError"
              /\ NextLoadError = MissingDefault(load.file)

\* C9 amended: if the module resolved for the current attempt has no
\* default export, the router never enters the loaded state for that
\* attempt, and the attempt ends by setting the error state: to the error
\* that names the route's file, or, when the import of the layout the
\* module selects was rejected, to the reason of that rejection.
C9_MissingDefaultIsLoadError ==
    MissingDefaultSeen =>
        LET load == loads[CurrentLoad]
            name == resolveLayoutName(pageMod.layout)
        IN
        /\ NextLoaded = LoadedNull
        /\ load.pc = "done" =>
              /\ load.outcome = "setLoadError"
              /\ \/ NextLoadError = MissingDefault(load.file)
                 \/ name \in LayoutNames /\ NextLoadError \in LayoutRejections(name)

\* The layout was selected and loaded, and only then the missing default
\* export stopped the load.
C9_Witness ==
    /\ MissingDefaultSeen
    /\ pageMod.layout = SelFunction("global")
    /\ loads[CurrentLoad].pc = "done"
    /\ loadError = MissingDefault(loads[CurrentLoad].file)
    /\ View = "error"

\* The selector is a function that throws, or names a layout the mapping
\* has no loader for.
LayoutUnresolvable(sel) ==
    \/ sel.kind = "function" /\ sel.returns = Throws
    \/ sel.kind = "string" /\ sel.value # "" /\ sel.value \notin LayoutNames
    \/ sel.kind = "function" /\ sel.returns \notin {Throws, NotAString}
          /\ sel.returns \notin LayoutNames

\* C10: if the page has a default export and its layout selector throws or
\* names a layout absent from the mapping, the current load ends in the
\* loaded state with the page and no layout, never in the error state.
C10_UnresolvableLayoutIsNotFatal ==
    ( /\ kind = "layouts"
      /\ status = "mounted"
      /\ PageModuleSeen
      /\ pageMod.default # Undefined
      /\ LayoutUnresolvable(pageMod.layout) ) =>
        /\ loads[CurrentLoad].pc = "done"
        /\ loads[CurrentLoad].outcome = "setLoaded"
        /\ NextLoaded = [Page |-> loads[CurrentLoad].file, Layout |-> Undefined]
        /\ NextLoadError = ErrorNull

\* The {pathname, search} pair of a URL, the pathname through
\* normalizePathname, written out field by field.
SnapshotOf(url) ==
    [pathname |-> IF url.pathname = <<>> THEN <<Slash>>
                  ELSE IF url.pathname # <<Slash>> /\ url.pathname[Len(url.pathname)] = Slash
                       THEN SubSeq(url.pathname, 1, Len(url.pathname) - 1)
                       ELSE url.pathname,
     search |-> url.search]

\* This step is a call of navigate on a mounted router.
NavigateCalled == click'.kind = "navigate" /\ status = "mounted"

\* The call pushed one entry, the URL of its `to`, right after the current
\* entry, and onPop queued one update of the Location: the
\* normalizePathname'd pathname and the search of that entry, together.
PushedAndPublished ==
    /\ hidx' = hidx + 1
    /\ Len(history') = hidx + 1
    /\ SubSeq(history', 1, hidx) = SubSeq(history, 1, hidx)
    /\ history'[hidx'] \in ParseURL(click'.to)
    /\ queuedLoc' = SnapshotOf(history'[hidx'])

\* Pathname and search are never updated separately: a Location the
\* mounted router takes is the pair of one history entry.
PublishedWhole ==
    (status' = "mounted" /\ loc' # loc) =>
        \E k \in 1..Len(history') : loc' = SnapshotOf(history'[k])

\* C11 as stated: every navigate(to) on a mounted router pushes exactly one
\* history entry, the URL of `to`, and through onPop sets the Location to
\* the normalized pathname and the search of that entry in one update;
\* pathname and search are never updated separately.
C11_AsStated ==
    [][ /\ NavigateCalled => PushedAndPublished
        /\ PublishedWhole ]_vars

\* C11 amended: on a mounted router, navigate(to) for a `to` that resolves
\* to a URL of the document's origin pushes exactly one history entry, that
\* URL, and through onPop sets the Location to the normalized pathname and
\* the search of that entry in one update; for any other `to` the call
\* throws, pushes nothing and updates nothing. Pathname and search are never
\* updated separately.
C11_NavigatePushesOneEntryAndPublishes ==
    [][ /\ NavigateCalled =>
              IF \A url \in ParseURL(click'.to) : SameOrigin(url)
              THEN PushedAndPublished
              ELSE UNCHANGED <<history, hidx, queuedLoc, loc>>
        /\ PublishedWhole ]_vars

\* Two navigate calls before the router rendered: navigate('/'), which no
\* route of the table matches, then a navigate to a pathname of the routed
\* file. Both entries were pushed, the router rendered once, with the last
\* one, and is still mounted.
C11_Witness ==
    /\ status = "mounted"
    /\ subscribed
    /\ routes = TableOrder
    /\ rendered = "route"
    /\ Len(history) = 3
    /\ hidx = 3
    /\ history[2] = [pathname |-> <<"/">>, search |-> <<>>]
    /\ history[3] = [pathname |-> <<"/", "u", "/", "2">>, search |-> <<"?", "q">>]
    /\ loc = history[3]
    /\ ~UpdatePending

\* The router is gone and so are its effects: its host unmounted it, or a
\* render threw and React has run the cleanups.
TornDown == status = "torndown" \/ (status = "crashed" /\ ~CleanupPending)

\* C17: the window never holds more than one popstate listener of the
\* router, exactly one while the subscription effect is in place, and none
\* once the router is torn down (unmounted by its host, or by React after a
\* render threw, its cleanups run); once it is no longer mounted, no
\* back/forward event and no navigate call changes its Location or queues
\* an update of it, and it stays unmounted.
C17_OneSubscriptionNoneAfterTeardown ==
    [][ /\ listeners' <= 1
        /\ listeners' = (IF subscribed' THEN 1 ELSE 0)
        /\ TornDown' => listeners' = 0
        /\ status \in {"torndown", "crashed"} =>
              (loc' = loc /\ queuedLoc' = NoLoc /\ status' = status)
      ]_vars

\* The router was unmounted at one URL, and the browser has since moved to
\* another one: through a navigate call, then back.
C17_Witness ==
    /\ status = "torndown"
    /\ listeners = 0
    /\ Len(history) = 3
    /\ hidx = 2
    /\ loc # NoLoc
    /\ loc # SnapshotOf(history[2])
    /\ loc # SnapshotOf(history[3])

\* The page import of attempt a settles in this step by resolving.
PageArrives(a) ==
    /\ a <= Len(loads)
    /\ loads[a].pc = "page"
    /\ loads'[a].pc # "page"
    /\ loads'[a].outcome # "rejected"

\* C18: when the page import of a load attempt resolves after a later
\* route-file change has started a newer attempt, the document's title and
\* description tags stay as they are: a superseded load applies no metadata.
C18_StaleLoadAppliesNoMetadata ==
    [][ \A a \in 1..(Len(loads) - 1) :
            PageArrives(a) => (docTitle' = docTitle /\ descTags' = descTags)
      ]_vars

SameFileAfterStep ==
    LET m == FindMatch(routes, normalizePathname(history'[hidx'].pathname))
    IN  m.kind = "route" /\ m.route.file = effectFile

\* C24: when the layout-aware router, showing a routed tree, renders with
\* the location of a navigation (navigate, back or forward) whose pathname
\* is matched by the route file of the current match, no load attempt is
\* started and none cancelled, and the loaded and loadError states stay as
\* they are, or become what the load attempt had asked for before the
\* navigation, never anything else; the context gets the new location, from
\* which params and query are computed. The call of navigate itself changes
\* none of them either. A run of the load effect that starts an attempt
\* while an earlier one is current does so for another file. (The render is
\* one React can make: no Layout waits that is no component, see C10.)
C24_SameFileNavigationKeepsLoadState ==
    [][ /\ ( /\ kind = "layouts"
             /\ loc' # loc
             /\ status = "mounted"
             /\ rendered = "route"
             /\ effectFile = CurrentMatch.route.file
             /\ SameFileAfterStep
             /\ Shows(NextLoaded, NextLoadError) # "throws" )
           => ( /\ loads' = loads
                /\ effectFile' = effectFile
                /\ status' = "mounted"
                /\ rendered' = "route"
                /\ NextLoaded' = NextLoaded
                /\ NextLoadError' = NextLoadError
                /\ \/ loaded' = loaded /\ loadError' = loadError
                   \/ loaded' = NextLoaded /\ loadError' = NextLoadError
                /\ loc' = ReadLocation(WindowLocation')
                /\ CurrentMatch' = FindMatch(routes, loc'.pathname) )
        /\ click'.kind = "navigate" =>
              UNCHANGED <<loads, loaded, loadError, queuedLoaded, queuedLoadError, effectFile>>
        /\ (Len(loads') > Len(loads) /\ effectFile # NoFile)
              => loads'[Len(loads')].file # loads[Len(loads)].file
      ]_vars

\* The page of u/[id].tsx was loaded at /u/2?q, and a navigation to /u/U,
\* matched by the same file, changed the location and the id param while
\* the one load attempt and its page stayed.
C24_Witness ==
    /\ kind = "layouts"
    /\ status = "mounted"
    /\ hidx = 2
    /\ history[1].pathname = <<"/", "u", "/", "2">>
    /\ loc = [pathname |-> <<"/", "u", "/", "U">>, search |-> <<>>]
    /\ CurrentMatch.kind = "route"
    /\ CurrentMatch.route.file = "u/[id].tsx"
    /\ CurrentMatch.params.own[Id] = Str(<<"U">>)
    /\ Len(loads) = 1
    /\ loads[1].outcome = "setLoaded"
    /\ loaded # LoadedNull

\* Attempt a is the one the last run of the load effect started, and one of
\* its imports is awaited.
AwaitsImport(a) ==
    /\ kind = "layouts"
    /\ status = "mounted"
    /\ a = CurrentLoad
    /\ loads[a].pc # "done"
    /\ ~loads[a].cancelled

\* Attempt a has run to its end and the tree shows its page or its error.
HasSettled(a) ==
    /\ a <= Len(loads)
    /\ loads[a].pc = "done"
    /\ ~loads[a].cancelled
    /\ View \in {"page", "error"}

\* A route-file change, a crash or an unmount has run the cleanup of a.
Superseded(a) == a <= Len(loads) /\ loads[a].cancelled

\* C25: when every import settles, the router showing loading for an
\* attempt eventually shows that attempt's page or error, unless a
\* route-file change supersedes the attempt first; and the router leaves
\* loading for page or error only once the imports of the current attempt
\* have settled, so with an import that never settles it stays in loading
\* and never shows the error on its own.
C25_LoadingEndsWhenImportsSettle ==
    /\ \A a \in 1..MaxLoads :
           AwaitsImport(a) ~> (HasSettled(a) \/ Superseded(a))
    /\ [][ (kind = "layouts" /\ View = "loading" /\ View' \in {"page", "error"})
             => ( /\ CurrentLoad \in 1..Len(loads)
                  /\ loads[CurrentLoad].pc = "done" )
         ]_vars

\* The event was one Link takes over: after the caller's onClick ran it was
\* not default-prevented and none of meta, ctrl, shift, alt was held.
PlainClick(e) ==
    /\ ~e.defaultPrevented
    /\ ~e.metaKey /\ ~e.ctrlKey /\ ~e.shiftKey /\ ~e.altKey

\* C14: whenever Link's handler has dealt with a click, it has called
\* e.preventDefault() and navigate(to) if, after the caller's onClick ran,
\* the event was not default-prevented and none of meta, ctrl, shift, alt was
\* held (a `to` of the document's origin is then the browser's new entry);
\* otherwise it has called neither: the event is as onClick left it and
\* neither the history nor the router has changed.
C14_LinkNavigatesUnlessPreventedOrModified ==
    [][ click'.kind = "click" =>
          LET e == click'.afterOnClick IN
          IF PlainClick(e)
          THEN /\ click'.event = [e EXCEPT !.defaultPrevented = TRUE]
               /\ click'.calls = <<"preventDefault", "navigate">>
               /\ (\A url \in ParseURL(click'.to) : SameOrigin(url)) =>
                      /\ hidx' = hidx + 1
                      /\ Len(history') = hidx'
                      /\ history'[hidx'] \in ParseURL(click'.to)
          ELSE /\ click'.event = e
               /\ click'.calls = <<>>
               /\ UNCHANGED <<browserVars, instanceVars>>
      ]_vars

\* A plain click on a Link was turned into a navigation.
C14_Witness ==
    /\ click.kind = "click"
    /\ click.afterOnClick = ClickEvent(FALSE, "none")
    /\ click.event.defaultPrevented
    /\ click.calls = <<"preventDefault", "navigate">>
    /\ Len(history) = 2
    /\ history[2] = LocalURL(click.to)
    /\ status = "mounted"
    /\ loc = SnapshotOf(history[2])

\* ------------------------------------------------------- matcher harness
\* Segments of route files: a static one (pathnames carry its value in both
\* cases), a param and a catch-all with ordinary names, and a param and a
\* catch-all named '__proto__' ([__proto__].tsx, [...__proto__].tsx).
SegChoices == {Static(<<"u">>), Param(Id), CatchAll(Rest), Param(Proto), CatchAll(Proto)}

RECURSIVE SegListsUpTo(_)
SegListsUpTo(n) ==
    IF n = 0 THEN {<<>>}
    ELSE LET shorter == SegListsUpTo(n - 1)
         IN  shorter \cup {Append(s, c) : s \in {t \in shorter : Len(t) = n - 1}, c \in SegChoices}

\* The router is not part of the matcher harness.
RouterIdle ==
    /\ routes = <<>>
    /\ kind = "layouts"
    /\ history = <<>>
    /\ hidx = 0
    /\ NoInstance

\* Nothing has touched the document, and the metadata harness is not used.
DocumentIdle ==
    /\ docTitle = ""
    /\ descTags = <<>>
    /\ applied = <<>>

InitMatch ==
    /\ segments \in SegListsUpTo(MaxSegs)
    /\ pathname \in PathnamesUpTo(MaxPathLen)
    /\ result = Unset
    /\ resultSlash = Unset
    /\ resultTrunc = Unset
    /\ RouterIdle
    /\ DocumentIdle
    /\ GeneratorIdle
    /\ WatchIdle

\* The segment list without what follows its first catch-all.
UpToFirstCatchAll(segs) ==
    LET cs == {k \in 1..Len(segs) : segs[k].kind = "catchAll"}
    IN  IF cs = {} THEN segs
        ELSE SubSeq(segs, 1, CHOOSE k \in cs : \A j \in cs : k <= j)

CallMatchRoute ==
    /\ result = Unset
    /\ result' = matchRoute(segments, pathname)
    /\ resultSlash' = matchRoute(segments, Append(pathname, Slash))
    /\ resultTrunc' = matchRoute(UpToFirstCatchAll(segments), pathname)
    /\ UNCHANGED <<segments, pathname, browserVars, documentVars, routerVars, generatorVars,
                   watchVars, applied>>

NextMatch == CallMatchRoute

SpecMatch == InitMatch /\ [][NextMatch]_vars

\* --------------------------------------------------- claims on matchRoute
\* The non-empty slash-delimited parts of the harness pathname.
PartsOfPathname == FilterBoolean(SplitOnSlash(pathname, 1, <<>>))

NoCatchAll(segs) == \A k \in 1..Len(segs) : segs[k].kind # "catchAll"

\* Every static segment before position k equals the part at its position.
StaticsAgreeBefore(segs, parts, k) ==
    \A j \in 1..(k - 1) :
        segs[j].kind = "static" => (j <= Len(parts) /\ parts[j] = segs[j].value)

\* Every param segment before position k has a part, and a decodable one.
ParamsBindBefore(segs, parts, k) ==
    \A j \in 1..(k - 1) :
        segs[j].kind = "param" => (j <= Len(parts) /\ Decodable(parts[j]))

\* The last param segment named n among the first k segments.
LastParamNamed(segs, n, k) ==
    CHOOSE j \in 1..k :
        /\ segs[j].kind = "param" /\ segs[j].name = n
        /\ \A h \in (j + 1)..k : ~(segs[h].kind = "param" /\ segs[h].name = n)

ParamNames(segs, k) == {segs[j].name : j \in {h \in 1..k : segs[h].kind = "param"}}

ShapeFits(segs, parts) ==
    /\ Len(parts) = Len(segs)
    /\ StaticsAgreeBefore(segs, parts, Len(segs) + 1)

\* A param segment whose part is a malformed escape is reached by the walk.
ReachesMalformedParam(segs, parts) ==
    \E k \in 1..Len(segs) :
        /\ segs[k].kind = "param"
        /\ k <= Len(parts)
        /\ ~Decodable(parts[k])
        /\ StaticsAgreeBefore(segs, parts, k)

\* C3, with "its part" read as section 4.2 of the specification gives it
\* (the percent-decoded part, an error for a malformed escape): without a
\* catch-all, matchRoute succeeds iff the pathname has as many non-empty
\* parts as segments and every static segment equals its part exactly; on
\* success params has a property for each param name, bound to the decoded
\* part of the last param segment of that name, and in every other case the
\* result is no-match.
C3_MatchWithoutCatchAll ==
    (result # Unset /\ NoCatchAll(segments)) =>
        LET parts == PartsOfPathname
            n == Len(segments)
        IN  IF ReachesMalformedParam(segments, parts) THEN result = URIError
            ELSE IF ShapeFits(segments, parts)
            THEN /\ result.kind = "params"
                 /\ DOMAIN result.params.own = ParamNames(segments, n)
                 /\ \A name \in ParamNames(segments, n) :
                        result.params.own[name] =
                            Str(DecodeFrom(parts[LastParamNamed(segments, name, n)], 1))
            ELSE result = NoMatch

\* The position of the first catch-all segment (0 when there is none).
FirstCatchAll(segs) ==
    IF NoCatchAll(segs) THEN 0
    ELSE CHOOSE k \in 1..Len(segs) :
            segs[k].kind = "catchAll" /\ NoCatchAll(SubSeq(segs, 1, k - 1))

\* The walk arrives at the catch-all at position c: every segment before it
\* matched its part.
ReachesCatchAll(segs, parts, c) ==
    /\ c > 0
    /\ c - 1 <= Len(parts)
    /\ StaticsAgreeBefore(segs, parts, c)
    /\ ParamsBindBefore(segs, parts, c)

\* C4, with the parts read as section 4.2 of the specification gives them
\* (percent-decoded, an error for a malformed escape): on reaching a
\* catch-all the match succeeds and params has a property of the catch-all's
\* name, bound to the ordered sequence of all remaining parts, the empty
\* sequence when none remain.
C4_CatchAllBindsRemainder ==
    LET parts == PartsOfPathname
        c == FirstCatchAll(segments)
        rest == SubSeq(parts, c, Len(parts))
    IN  (result # Unset /\ ReachesCatchAll(segments, parts, c)) =>
            IF \E j \in 1..Len(rest) : ~Decodable(rest[j]) THEN result = URIError
            ELSE /\ result.kind = "params"
                 /\ segments[c].name \in DOMAIN result.params.own
                 /\ result.params.own[segments[c].name] =
                        Arr([j \in 1..Len(rest) |-> DecodeFrom(rest[j], 1)])

\* The positions of the pathname parts that the walk hands to
\* decodeURIComponent, were none of them to throw: the parts of the param
\* segments it reaches before the first catch-all, and all parts from the
\* first catch-all on if it gets there.
DecodedParts(segs, parts) ==
    LET c == FirstCatchAll(segs)
        last == IF c = 0 THEN Len(segs) ELSE c - 1
    IN  {k \in 1..last : /\ segs[k].kind = "param"
                          /\ k <= Len(parts)
                          /\ StaticsAgreeBefore(segs, parts, k)}
        \cup (IF c > 0 /\ c - 1 <= Len(parts) /\ StaticsAgreeBefore(segs, parts, c)
              THEN c..Len(parts) ELSE {})

\* Every '%' of the part starts a two-digit hexadecimal escape.
RECURSIVE EscapesFrom(_, _)
EscapesFrom(s, k) ==
    IF k > Len(s) THEN TRUE
    ELSE IF s[k] # "%" THEN EscapesFrom(s, k + 1)
    ELSE /\ k + 2 <= Len(s)
         /\ s[k + 1] \in {"0", "2"}
         /\ s[k + 2] \in {"0", "2"}
         /\ EscapesFrom(s, k + 3)

\* The values a match has bound: those of the own properties of params, and
\* the array a catch-all named '__proto__' made its prototype.
BoundValues(params) ==
    {params.own[n] : n \in DOMAIN params.own}
        \cup (IF params.proto.t = "array" THEN {params.proto} ELSE {})

\* C16: matchRoute throws exactly when one of the parts it decodes for a
\* param or catch-all binding holds a malformed percent-escape; it then
\* returns neither a match nor no-match, and every value a successful match
\* binds is the full decoding of a well-formed part.
C16_MalformedEscapeThrows ==
    result # Unset =>
        LET parts == PartsOfPathname
            decoded == DecodedParts(segments, parts)
            malformed == \E k \in decoded : ~EscapesFrom(parts[k], 1)
        IN  /\ malformed => result = URIError
            /\ result = URIError => malformed
            /\ result.kind = "params" =>
                  \A bound \in BoundValues(result.params) :
                      IF bound.t = "string"
                      THEN \E k \in decoded : /\ EscapesFrom(parts[k], 1)
                                              /\ bound.v = DecodeFrom(parts[k], 1)
                      ELSE \A j \in 1..Len(bound.v) :
                              \E k \in decoded : /\ EscapesFrom(parts[k], 1)
                                                  /\ bound.v[j] = DecodeFrom(parts[k], 1)

\* A lone '%' where the id parameter is bound, and a truncated escape in
\* the remainder a catch-all binds.
C16_Witness ==
    /\ result = URIError
    /\ \/ segments = <<Static(<<"u">>), Param(Id)>> /\ pathname = <<"/", "u", "/", "%">>
       \/ segments = <<CatchAll(Rest)>> /\ pathname = <<"/", "u", "/", "%", "2">>

\* C19: for a segment list with a catch-all that is not its last segment,
\* and for every pathname, matchRoute returns exactly what it returns for
\* the list cut just after that catch-all: a match, no-match or the error,
\* with the same params.
C19_SegmentsAfterCatchAllIgnored ==
    LET c == FirstCatchAll(segments) IN
    (result # Unset /\ c > 0 /\ c < Len(segments)) =>
        /\ resultTrunc = result
        /\ (result.kind = "params" /\ Len(segments) = c + 1
                /\ segments[c + 1].kind # "catchAll")
               => DOMAIN result.params.own =
                      (ParamNames(segments, c - 1) \cup {segments[c].name}) \ {Proto}

\* A static segment after the catch-all, and a pathname that does not end
\* with it, still match.
C19_Witness ==
    /\ segments = <<CatchAll(Rest), Static(<<"u">>)>>
    /\ pathname = <<"/", "U">>
    /\ result = Matched(Put(EmptyParams, Rest, Arr(<< <<"U">> >>)))
    /\ resultTrunc = result

\* C5: for every segment list and every pathname p other than the root,
\* matchRoute(segments, p + "/") returns the same result as
\* matchRoute(segments, p).
C5_TrailingSlashSameMatch ==
    (result # Unset /\ pathname # <<Slash>>) => resultSlash = result

C5_Witness ==
    /\ segments = <<Static(<<"u">>)>>
    /\ pathname = <<"/", "u", "/">>
    /\ result = Matched(EmptyParams)
    /\ resultSlash = result

\* ------------------------------------------------------ generator harness
\* Files a pages directory is made of.
Users == <<"u", "s", "e", "r", "s">>
Files == <<"f", "i", "l", "e", "s">>

PagePool ==
    { Index \o Tsx,
      Users \o <<"/", "[", "i", "d", "]">> \o Tsx,
      Files \o <<"/", "[", ".", ".", ".", "r", "e", "s", "t", "]">> \o Tsx,
      <<"_", "i", "g", "n", "o", "r", "e", "d", "/", "s", "e", "c", "r", "e", "t">> \o Tsx,
      Users \o <<"/", "m", "e">> \o Tsx,
      Users \o <<"/">> \o Index \o Tsx,
      Files \o <<"/", "_", "d", "r", "a", "f", "t">> \o Tsx,
      <<"r", "e", "a", "d", "m", "e", ".", "m", "d">>,
      <<"[", ".", ".", ".", "a", "l", "l", "]">> \o Tsx }

\* The matcher harness is not part of the generator harness.
MatcherIdle ==
    /\ segments = <<>>
    /\ pathname = <<>>
    /\ result = Unset
    /\ resultSlash = Unset
    /\ resultTrunc = Unset

InitGen ==
    /\ pagesDir \in {d \in SUBSET PagePool : Cardinality(d) <= MaxFiles}
    /\ table = NotGenerated
    /\ manifest = NotGenerated
    /\ MatcherIdle
    /\ RouterIdle
    /\ DocumentIdle
    /\ WatchIdle

NextGen == \E filesAbs \in Listings(pagesDir) : GenerateFsRoutes(filesAbs)

SpecGen == InitGen /\ [][NextGen]_vars

\* --------------------------------------------------- claims on the generator
AllStatic(segs) == \A k \in 1..Len(segs) : segs[k].kind = "static"

\* C12: in a generated table, the pathname equal to the path of a route made
\* only of static segments resolves, first match in table order, to that
\* route and not to a parameter or catch-all route placed before it.
C12_StaticRouteWinsItsOwnPath ==
    table.done =>
        \A k \in 1..Len(table.routes) :
            AllStatic(table.routes[k].segments) =>
                LET m == FindMatch(table.routes, table.routes[k].path)
                IN  m.kind = "route" /\ AllStatic(m.route.segments)

\* A component of the relative path starts with an underscore.
HasUnderscoreComponent(f) ==
    \E k \in 1..Len(f) : f[k] = "_" /\ (k = 1 \/ f[k - 1] = Slash)

IsPageFile(f) == EndsWith(f, Tsx) /\ ~HasUnderscoreComponent(f)

ExampleDir ==
    { Index \o Tsx,
      Users \o <<"/", "[", "i", "d", "]">> \o Tsx,
      Files \o <<"/", "[", ".", ".", ".", "r", "e", "s", "t", "]">> \o Tsx,
      <<"_", "i", "g", "n", "o", "r", "e", "d", "/", "s", "e", "c", "r", "e", "t">> \o Tsx }

ExampleRoutes ==
    { [file |-> Index \o Tsx, segments |-> <<>>],
      [file |-> Users \o <<"/", "[", "i", "d", "]">> \o Tsx,
       segments |-> <<Static(Users), Param(<<"i", "d">>)>>],
      [file |-> Files \o <<"/", "[", ".", ".", ".", "r", "e", "s", "t", "]">> \o Tsx,
       segments |-> <<Static(Files), CatchAll(<<"r", "e", "s", "t">>)>>] }

\* C13: the generated table has exactly one route for every .tsx file of the
\* pages directory none of whose path components starts with an underscore,
\* and no route for any other file; for the directory index.tsx,
\* users/[id].tsx, files/[...rest].tsx, _ignored/secret.tsx it has exactly
\* the three routes of the root, users + parameter id, files + catch-all rest.
C13_OneRoutePerPageFile ==
    table.done =>
        LET rs == table.routes IN
        /\ \A f \in pagesDir :
              Cardinality({k \in 1..Len(rs) : rs[k].file = f}) = IF IsPageFile(f) THEN 1 ELSE 0
        /\ \A k \in 1..Len(rs) : rs[k].file \in pagesDir
        /\ pagesDir = ExampleDir =>
              /\ Len(rs) = 3
              /\ {[file |-> rs[k].file, segments |-> rs[k].segments] : k \in 1..Len(rs)}
                     = ExampleRoutes

C13_Witness ==
    /\ table.done
    /\ pagesDir = ExampleDir
    /\ Len(table.routes) = 3
    /\ table.routes[1].path = <<Slash>>

\* ------------------------------------------------------- metadata harness
MaxCalls == 3

\* What applyMetadata can be given: nothing, or a record with or without a
\* title and with or without a description.
MetadataArgs ==
    {NoMetadata} \cup
    {Metadata(t, d) : t \in {Undefined, "X", "Y"}, d \in {Undefined, "d", "e"}}

\* Documents as served: titled or not, without a description tag, with one,
\* or with two.
InitMeta ==
    /\ docTitle \in {"", "Y"}
    /\ descTags \in {<<>>, <<"e">>, <<"e", "f">>}
    /\ applied = <<>>
    /\ GeneratorIdle
    /\ WatchIdle
    /\ MatcherIdle
    /\ RouterIdle

CallApplyMetadata(meta) ==
    /\ Len(applied) < MaxCalls
    /\ applied' = Append(applied, meta)
    /\ applyMetadata(meta)
    /\ UNCHANGED <<matcherVars, browserVars, routerVars, generatorVars, watchVars>>

NextMeta == \E meta \in MetadataArgs : CallApplyMetadata(meta)

SpecMeta == InitMeta /\ [][NextMeta]_vars

\* ------------------------------------------------ claims on applyMetadata
\* C15: a call of applyMetadata leaves the number of description tags as it
\* was, except that it creates the only one when there was none and a
\* description is given; it then holds the description, as does otherwise
\* the first existing tag; a call with absent metadata changes neither
\* title nor tags; and a call with the same metadata as the call before it
\* changes neither title nor tags.
C15_MetadataUpsertIsIdempotent ==
    [][ Len(applied') = Len(applied) + 1 =>
          LET meta == applied'[Len(applied')]
              describes == meta.present /\ meta.description # Undefined
          IN  /\ Len(descTags') = IF describes /\ descTags = <<>> THEN 1 ELSE Len(descTags)
              /\ describes => descTags'[1] = meta.description
              /\ \A k \in 2..Len(descTags) : descTags'[k] = descTags[k]
              /\ ~describes => descTags' = descTags
              /\ docTitle' = IF meta.present /\ meta.title # Undefined
                             THEN meta.title ELSE docTitle
              /\ ~meta.present => (docTitle' = docTitle /\ descTags' = descTags)
              /\ (applied # <<>> /\ applied[Len(applied)] = meta)
                     => (docTitle' = docTitle /\ descTags' = descTags)
      ]_vars

\* The same title and description applied twice to a document that had no
\* description tag: one tag, created by the first call.
C15_Witness ==
    /\ Len(applied) = 2
    /\ applied[1] = Metadata("X", "d")
    /\ applied[2] = Metadata("X", "d")
    /\ docTitle = "X"
    /\ descTags = <<"d">>

\* ------------------------------------------------------- watch-mode harness
\* The page the developer writes and removes while the process runs (the
\* index page goes only with web/pages).
EditedPages == {BlogPage}

\* The directories the developer makes and removes while the process runs
\* (web/layouts is there from the start, or not at all).
EditedDirs == {PagesRoot, BlogDir}

\* bun generate.ts --watch.
\* The trees the process is started on: none, web/pages with its index
\* page and no layouts directory yet, and the full tree.
InitTrees ==
    { [dirs |-> {}, files |-> {}],
      [dirs |-> {PagesRoot}, files |-> {Index \o Tsx}],
      [dirs |-> DirPool, files |-> WatchPages] }

InitWatch ==
    /\ variant \in {"layouts", "routesOnly"}
    /\ \E tree \in InitTrees : dirs = tree.dirs /\ pagesDir = tree.files
    /\ changes = 0
    /\ ConsistentTree(dirs, pagesDir)
    /\ table = NotGenerated
    /\ manifest = NotGenerated
    /\ watchers = {}
    /\ live = {}
    /\ frames = NoFrames
    /\ scheduled = NoTimer
    /\ running = FALSE
    /\ needsRerun = FALSE
    /\ regen = RegenIdle
    /\ startup = "start"
    /\ rescanOwed = FALSE
    /\ regenOwed = FALSE
    /\ MatcherIdle
    /\ RouterIdle
    /\ DocumentIdle

StartupStep ==
    \/ WatchPagesAndRegenerate
    \/ StartupEnsureWatched
    \/ StartupGenerateFsRoutes
    \/ StartupGenerateLayouts

RegenStep ==
    \/ RegenEnsureWatched
    \/ RegenGenerateFsRoutes
    \/ RegenGenerateLayouts

NextWatch ==
    \/ WatchPagesAndRegenerate
    \/ StartupEnsureWatched
    \/ StartupGenerateFsRoutes
    \/ StartupGenerateLayouts
    \/ TimerFires
    \/ RegenEnsureWatched
    \/ RegenGenerateFsRoutes
    \/ RegenGenerateLayouts
    \/ Shutdown
    \/ \E d \in EditedDirs : MkDir(d)
    \/ \E d \in EditedDirs : RmDir(d)
    \/ \E rel \in EditedPages : WritePage(rel)
    \/ \E rel \in EditedPages : RemovePage(rel)
    \/ \E d \in DirPool : WriteOther(d)
    \/ \E d \in DirPool : UnnamedEvent(d)

\* Every started scan and generation completes (each readdir and write
\* settles), and the developer does not keep the debounce timer from
\* expiring for ever.
SpecWatch ==
    /\ InitWatch
    /\ [][NextWatch]_vars
    /\ WF_vars(StartupStep)
    /\ WF_vars(RegenStep)
    /\ WF_vars(TimerFires)

\* ---------------------------------------------------- claims on watch mode
\* C20: in watch mode, as long as the process lives, every watcher event
\* whose filename does not end in .tsx is eventually followed by a call of
\* ensureWatched that starts after the event.
C20_StructuralEventIsRescanned ==
    rescanOwed ~> (~rescanOwed \/ Gone)

\* A position inside generateFsRoutes() or generateLayouts().
InGeneration(pc) == pc \in {"generateFsRoutes", "generateLayouts"}

\* C21: in watch mode no two generations overlap: the initial generation of
\* watchPagesAndRegenerate and the generation of a timer callback are never
\* both under way.
C21_OneGenerationAtATime ==
    ~(InGeneration(startup) /\ InGeneration(regen.pc))

\* C22: in watch mode, as long as the process lives, every watcher event
\* is eventually followed by a timer callback that starts a generation
\* after the event, and the generations timer callbacks start run to
\* their end, by success or by error: whenever an event has been delivered
\* that no generation has started after, or a generation is running, the
\* process comes to a state where every delivered event has had its
\* generation and none is running. An event that arrives during the
\* debounce window or while a generation runs is not lost, and a failed
\* generation stops no later one.
C22_EveryEventIsRegenerated ==
    (regenOwed \/ running) ~> ((~regenOwed /\ ~running) \/ Gone)

\* An event arrived while a generation was running and its timer has
\* expired: the callback asked for a rerun.
C22_Witness ==
    /\ startup = "watching"
    /\ running
    /\ needsRerun
    /\ regenOwed
    /\ ~scheduled.armed

====
